---------------------------- MODULE Spec2Model ----------------------------
(***************************************************************************)
(* A model of the OAI-PMH server of gustavofonseca/oai-pmh: the pagination *)
(* cursor (oaipmh/entities.py, class ResumptionToken), the in-memory       *)
(* DataStore (oaipmh/datastores.py) and the request engine                 *)
(* (oaipmh/repository.py).                                                 *)
(*                                                                         *)
(* Python strings are sequences of one-character strings, so that          *)
(* formatting, splitting, slicing, comparison and the token syntax         *)
(* patterns are computed as the code computes them.  Python values that    *)
(* may be None, a str or an int are tagged records (PyNone, PyStr, PyInt). *)
(***************************************************************************)
EXTENDS Integers, Sequences, FiniteSets, TLC

(***************************************************************************)
(* Characters and strings                                                  *)
(***************************************************************************)

\* The characters the model uses, in code point order (str comparison).
Alphabet ==
    << "(", ")", "-", "0", "1", "2", "3", "4", "5", "6", "7", "8", "9", ":",
       "N", "T", "Z", "_", "a", "b", "c", "d", "e", "i", "n", "o" >>

Ord(ch) == CHOOSE i \in 1..Len(Alphabet) : Alphabet[i] = ch

DigitChars == {"0", "1", "2", "3", "4", "5", "6", "7", "8", "9"}

\* re: \d
IsDigit(ch) == ch \in DigitChars

\* re: \w
IsWord(ch) ==
    ch \in DigitChars \cup
           {"N", "T", "Z", "_", "a", "b", "c", "d", "e", "i", "n", "o"}

DigitVal(ch) == Ord(ch) - Ord("0")

DigitChar(d) == Alphabet[Ord("0") + d]

AllDigits(s) == \A i \in 1..Len(s) : IsDigit(s[i])

AllWord(s) == \A i \in 1..Len(s) : IsWord(s[i])

\* int(s) for a str of decimal digits
RECURSIVE StrToInt(_)
StrToInt(s) ==
    IF s = << >> THEN 0
    ELSE 10 * StrToInt(SubSeq(s, 1, Len(s) - 1)) + DigitVal(s[Len(s)])

\* str(n) for an int n >= 0
RECURSIVE IntToStr(_)
IntToStr(n) ==
    IF n < 10 THEN << DigitChar(n) >>
    ELSE IntToStr(n \div 10) \o << DigitChar(n % 10) >>

\* s1 < s2, the order of Python's str
RECURSIVE StrLess(_, _)
StrLess(s1, s2) ==
    IF s2 = << >> THEN FALSE
    ELSE IF s1 = << >> THEN TRUE
    ELSE IF s1[1] # s2[1] THEN Ord(s1[1]) < Ord(s2[1])
    ELSE StrLess(Tail(s1), Tail(s2))

StrLeq(s1, s2) == s1 = s2 \/ StrLess(s1, s2)

\* s[0:n]
Prefix(s, n) == SubSeq(s, 1, IF n < Len(s) THEN n ELSE Len(s))

\* s.index(ch): the 0-based position of the first ch (the callers hold
\* strings that contain it)
IndexOf(s, ch) == (CHOOSE i \in 1..Len(s) :
                      s[i] = ch /\ \A j \in 1..(i - 1) : s[j] # ch) - 1

Contains(s, ch) == \E i \in 1..Len(s) : s[i] = ch

\* s.split(sep) for a one-character sep
RECURSIVE Split(_, _)
Split(s, sep) ==
    IF ~Contains(s, sep) THEN << s >>
    ELSE LET i == IndexOf(s, sep) + 1
         IN  << SubSeq(s, 1, i - 1) >> \o Split(SubSeq(s, i + 1, Len(s)), sep)

\* sep.join(parts)
RECURSIVE Join(_, _)
Join(parts, sep) ==
    IF parts = << >> THEN << >>
    ELSE IF Len(parts) = 1 THEN parts[1]
    ELSE parts[1] \o << sep >> \o Join(Tail(parts), sep)

\* n written with at least w digits ('%04d')
RECURSIVE ZeroPad(_, _)
ZeroPad(s, w) == IF Len(s) >= w THEN s ELSE ZeroPad(<< "0" >> \o s, w)

\* The datestamp 'YYYY-MM-DD' of a calendar day
Date(y, m, d) ==
    ZeroPad(IntToStr(y), 4) \o << "-" >> \o ZeroPad(IntToStr(m), 2)
        \o << "-" >> \o ZeroPad(IntToStr(d), 2)

(***************************************************************************)
(* Python values                                                           *)
(***************************************************************************)

PyNone == [ty |-> "None", s |-> << >>, n |-> 0]
PyStr(s) == [ty |-> "str", s |-> s, n |-> 0]
PyInt(n) == [ty |-> "int", s |-> << >>, n |-> n]

\* bool(v)
Truthy(v) == (v.ty = "str" /\ v.s # << >>) \/ (v.ty = "int" /\ v.n # 0)

\* a or b
PyOr(a, b) == IF Truthy(a) THEN a ELSE b

\* '%s' % v
Fmt(v) ==
    CASE v.ty = "None" -> << "N", "o", "n", "e" >>
      [] v.ty = "str" -> v.s
      [] v.ty = "int" -> IntToStr(v.n)

\* int(v) for an int, or a str of digits
IntOf(v) == IF v.ty = "int" THEN v.n ELSE StrToInt(v.s)

\* The exception int(v) raises, "" when it raises none
IntExc(v) ==
    IF v.ty = "None" THEN "TypeError"
    ELSE IF v.ty = "str" /\ ~(v.s # << >> /\ AllDigits(v.s)) THEN "ValueError"
    ELSE ""


\* tuple(map(int, datestamp.split('-')))
RECURSIVE MapInt(_)
MapInt(parts) ==
    IF parts = << >> THEN << >>
    ELSE << StrToInt(parts[1]) >> \o MapInt(Tail(parts))

datestamp_to_tuple(datestamp) == MapInt(Split(datestamp, "-"))

\* The exception datestamp_to_tuple raises, "" when it raises none: int
\* raises ValueError for a part that is no decimal number
datestamp_to_tuple_exc(datestamp) ==
    IF \E part \in { Split(datestamp, "-")[i] :
                         i \in 1..Len(Split(datestamp, "-")) } :
           part = << >> \/ ~AllDigits(part)
    THEN "ValueError" ELSE ""

\* t1 < t2 for tuples of ints
RECURSIVE TupleLess(_, _)
TupleLess(t1, t2) ==
    IF t2 = << >> THEN FALSE
    ELSE IF t1 = << >> THEN TRUE
    ELSE IF t1[1] # t2[1] THEN t1[1] < t2[1]
    ELSE TupleLess(Tail(t1), Tail(t2))

(***************************************************************************)
(* entities.ResumptionToken                                                *)
(***************************************************************************)

attrs == << "set", "from_", "until", "offset", "count", "metadataPrefix" >>

\* ResumptionToken(**kwargs): an attribute that is not given is None
ResumptionToken(set, from_, until, offset, count, metadataPrefix) ==
    [set |-> set, from_ |-> from_, until |-> until, offset |-> offset,
     count |-> count, metadataPrefix |-> metadataPrefix]

\* re: ((\d{4})-(\d{2})-(\d{2}))
IsDateShape(s) ==
    /\ Len(s) = 10
    /\ \A i \in {1, 2, 3, 4, 6, 7, 9, 10} : IsDigit(s[i])
    /\ s[5] = "-" /\ s[8] = "-"

\* re: (\w+)?
IsOptWord(s) == AllWord(s)

\* re: ((\d{4})-(\d{2})-(\d{2}))?
IsOptDate(s) == s = << >> \/ IsDateShape(s)

\* re: \d+
IsNumber(s) == s # << >> /\ AllDigits(s)

\* re: \w+
IsWordPlus(s) == s # << >> /\ AllWord(s)

\* re: (\d{4})-(\d{2})-(\d{2})\(\d+\)
IsAnchoredOffset(s) ==
    /\ Len(s) >= 13
    /\ IsDateShape(SubSeq(s, 1, 10))
    /\ s[11] = "(" /\ s[Len(s)] = ")"
    /\ IsNumber(SubSeq(s, 12, Len(s) - 1))

PatternVerbs == {"ListRecords", "ListIdentifiers", "ListSets"}

\* re.fullmatch(token_patterns[verb], token).  No class of the patterns
\* matches ':', so a full match is a match of the six ':'-separated parts.
token_patterns(verb, token) ==
    LET p == Split(token, ":")
    IN  /\ Len(p) = 6
        /\ CASE verb = "ListRecords" ->
                  /\ IsOptWord(p[1]) /\ IsOptDate(p[2]) /\ IsOptDate(p[3])
                  /\ IsAnchoredOffset(p[4]) /\ IsNumber(p[5])
                  /\ IsWordPlus(p[6])
             [] verb = "ListIdentifiers" ->
                  /\ IsOptWord(p[1]) /\ IsOptDate(p[2]) /\ IsOptDate(p[3])
                  /\ IsNumber(p[4]) /\ IsNumber(p[5]) /\ IsWordPlus(p[6])
             [] verb = "ListSets" ->
                  /\ p[1] = << >> /\ IsOptDate(p[2]) /\ IsOptDate(p[3])
                  /\ IsNumber(p[4]) /\ IsNumber(p[5]) /\ p[6] = << >>

\* _is_valid_token
is_valid_token(token, verb) == token_patterns(verb, token)

\* A variant of decode that gives '' to an attribute the token does not hold
decode_Padded(token) ==
    LET values == Split(token, ":")
        at(i) == IF i <= Len(values) THEN PyStr(values[i]) ELSE PyStr(<< >>)
    IN  ResumptionToken(at(1), at(2), at(3), at(4), at(5), at(6))

\* decode: dict(zip(attrs, token.split(':'))), a missing attribute is None
decode(token) ==
    LET values == Split(token, ":")
        at(i) == IF i <= Len(values) THEN PyStr(values[i]) ELSE PyNone
    IN  ResumptionToken(at(1), at(2), at(3), at(4), at(5), at(6))

\* ensure_str
ensure_str(obj) == IF obj.ty = "None" THEN << >> ELSE Fmt(obj)

\* encode
encode(self) ==
    Join(<< ensure_str(self.set), ensure_str(self.from_),
            ensure_str(self.until), ensure_str(self.offset),
            ensure_str(self.count), ensure_str(self.metadataPrefix) >>, ":")

\* A variant of __eq__ that compares the attributes, not the encoded forms
TokenEq_ByAttributes(a, b) == a = b

\* __eq__: the hashes of the encoded forms are equal
TokenEq(a, b) == encode(a) = encode(b)

\* is_first_page
is_first_page(self) ==
    self.offset.ty = "str"
        /\ self.offset.s = Fmt(self.from_) \o << "(", "0", ")" >>

_lower_limit(self) == self.from_

_upper_limit(self) == self.until

\* query_offset: int(offset[offset.index('(') + 1:-1])
query_offset(self) ==
    LET o == self.offset.s
    IN  StrToInt(SubSeq(o, IndexOf(o, "(") + 2, Len(o) - 1))

\* query_from: offset[0:10]
query_from(self) == Prefix(self.offset.s, 10)

\* query_until
query_until(self) ==
    LET ref_date == query_from(self)
        until == Prefix(ref_date, 4) \o << "-", "1", "2", "-", "3", "1" >>
    IN  IF StrLeq(_upper_limit(self).s, until) THEN _upper_limit(self).s
        ELSE until

\* query_count
query_count(self) == IntOf(self.count)

\* The methods above read the offset as 'YYYY-MM-DD(N)' and until as a str:
\* query_offset raises ValueError on an offset without '(' and query_until
\* raises TypeError when until is None.
CanQuery(self) ==
    /\ self.offset.ty = "str" /\ Contains(self.offset.s, "(")
    /\ AllDigits(SubSeq(self.offset.s, IndexOf(self.offset.s, "(") + 2,
                        Len(self.offset.s) - 1))
    /\ IndexOf(self.offset.s, "(") + 2 <= Len(self.offset.s) - 1
    /\ self.until.ty = "str"
    /\ self.count.ty # "None" /\ (self.count.ty = "str" => IsNumber(self.count.s))

\* _asdict, then self.__class__(**token_map) with a new offset
WithOffset(self, offset) == [self EXCEPT !.offset = PyStr(offset)]

\* A variant of _incr_offset_size that forgets the rows already skipped
_incr_offset_size_NoSkip(self) ==
    WithOffset(self, query_from(self) \o << "(" >>
                         \o IntToStr(IntOf(self.count)) \o << ")" >>)

\* _incr_offset_size
_incr_offset_size(self) ==
    LET new_offset == query_offset(self) + IntOf(self.count)
    IN  WithOffset(self, query_from(self) \o << "(" >> \o IntToStr(new_offset)
                             \o << ")" >>)

\* A variant of _incr_offset_from that keeps the rows skipped
_incr_offset_from_KeepsSkip(self) ==
    LET new_from == IntToStr(StrToInt(Prefix(query_from(self), 4)) + 1)
                        \o << "-", "0", "1", "-", "0", "1" >>
    IN  WithOffset(self, new_from \o << "(" >>
                             \o IntToStr(query_offset(self)) \o << ")" >>)

\* _incr_offset_from
_incr_offset_from(self) ==
    LET new_from == IntToStr(StrToInt(Prefix(query_from(self), 4)) + 1)
                        \o << "-", "0", "1", "-", "0", "1" >>
    IN  WithOffset(self, new_from \o << "(", "0", ")" >>)

\* A variant of _has_more_search_space that compares with <=
_has_more_search_space_Leq(self) ==
    StrLeq(query_until(self), _upper_limit(self).s)

\* _has_more_search_space
_has_more_search_space(self) ==
    StrLess(query_until(self), _upper_limit(self).s)

\* _has_more_resources
_has_more_resources(resources, batch_size) ==
    Len(resources) = IntOf(batch_size)

\* An optional value: << >> is None, << v >> is v
None == << >>
Some(v) == << v >>

\* A variant of next that tries the year rollover before the skip advance
next_RolloverFirst(self, resources) ==
    IF _has_more_search_space(self)
    THEN Some(_incr_offset_from(self))
    ELSE IF _has_more_resources(resources, self.count)
    THEN Some(_incr_offset_size(self))
    ELSE None

\* next
next(self, resources) ==
    IF _has_more_resources(resources, self.count)
    THEN Some(_incr_offset_size(self))
    ELSE IF _has_more_search_space(self)
    THEN Some(_incr_offset_from(self))
    ELSE None

\* An OAIRequest
OAIRequest(verb, identifier, metadataPrefix, set, resumptionToken, from_, until) ==
    [verb |-> verb, identifier |-> identifier,
     metadataPrefix |-> metadataPrefix, set |-> set,
     resumptionToken |-> resumptionToken, from_ |-> from_, until |-> until]

\* A variant of _is_valid_oairequest that matches the token against
\* RESUMPTION_TOKEN_PATTERNS of repository
_is_valid_oairequest_Legacy(oairequest) ==
    LET p == Split(oairequest.resumptionToken.s, ":")
    IN  /\ Len(p) = 6
        /\ IF oairequest.verb.s = "ListRecords"
           THEN /\ IsOptWord(p[1]) /\ IsOptDate(p[2]) /\ IsOptDate(p[3])
                /\ IsNumber(p[4]) /\ IsNumber(p[5]) /\ IsWordPlus(p[6])
           ELSE /\ (oairequest.verb.s = "ListSets" => p[1] = << >>)
                /\ IsOptWord(p[1]) /\ IsOptDate(p[2]) /\ IsOptDate(p[3])
                /\ IsNumber(p[4]) /\ IsNumber(p[5]) /\ p[6] = << >>

\* _is_valid_oairequest; _get_validation_pattern raises ValueError for a
\* verb that has no pattern
_is_valid_oairequest(oairequest) ==
    is_valid_token(oairequest.resumptionToken.s, oairequest.verb.s)

\* A variant of new_from_request that anchors the offset of a new cursor at
\* default_from
new_from_request_DefaultAnchor(oairequest, default_count, default_from, default_until) ==
    IF Truthy(oairequest.resumptionToken)
    THEN IF oairequest.verb.ty # "str" \/ oairequest.verb.s \notin PatternVerbs
         THEN [exc |-> "ValueError", token |-> None]
         ELSE IF ~_is_valid_oairequest(oairequest)
         THEN [exc |-> "BadResumptionTokenError", token |-> None]
         ELSE LET token == decode(oairequest.resumptionToken.s)
              IN  IF IntOf(token.count) # default_count
                  THEN [exc |-> "BadResumptionTokenError", token |-> None]
                  ELSE [exc |-> "", token |-> Some(token)]
    ELSE [exc |-> "",
          token |-> Some(ResumptionToken(
              oairequest.set,
              PyOr(oairequest.from_, default_from),
              PyOr(oairequest.until, default_until),
              PyStr(Fmt(default_from) \o << "(", "0", ")" >>),
              PyStr(IntToStr(default_count)),
              oairequest.metadataPrefix))]

\* new_from_request: the exception raised ("" when none) and the token
new_from_request(oairequest, default_count, default_from, default_until) ==
    IF Truthy(oairequest.resumptionToken)
    THEN IF oairequest.verb.ty # "str" \/ oairequest.verb.s \notin PatternVerbs
         THEN [exc |-> "ValueError", token |-> None]
         ELSE IF ~_is_valid_oairequest(oairequest)
         THEN [exc |-> "BadResumptionTokenError", token |-> None]
         ELSE LET token == decode(oairequest.resumptionToken.s)
              IN  IF IntOf(token.count) # default_count
                  THEN [exc |-> "BadResumptionTokenError", token |-> None]
                  ELSE [exc |-> "", token |-> Some(token)]
    ELSE [exc |-> "",
          token |-> Some(ResumptionToken(
              oairequest.set,
              PyOr(oairequest.from_, default_from),
              PyOr(oairequest.until, default_until),
              PyStr(Fmt(PyOr(oairequest.from_, default_from))
                        \o << "(", "0", ")" >>),
              PyStr(IntToStr(default_count)),
              oairequest.metadataPrefix))]

(***************************************************************************)
(* repository: the token functions and the serializers' token              *)
(***************************************************************************)

\* encode_resumption_token: ':'.join(ensure_str(part) for part in token)
encode_resumption_token(token) ==
    Join(<< ensure_str(token.set), ensure_str(token.from_),
            ensure_str(token.until), ensure_str(token.offset),
            ensure_str(token.count), ensure_str(token.metadataPrefix) >>, ":")

\* serialize_list_records, serialize_list_identifiers, serialize_list_sets:
\* the resumptionToken of the response
encoded_resumption_token(resumption_token) ==
    IF resumption_token = None THEN << >>
    ELSE encode_resumption_token(resumption_token[1])

\* RESUMPTION_TOKEN_PATTERNS[verb].fullmatch(token): as no class of the
\* patterns matches ':', a match has six ':'-separated parts
RESUMPTION_TOKEN_PATTERNS(verb, token) ==
    LET p == Split(token, ":")
    IN  /\ Len(p) = 6
        /\ CASE verb = "ListRecords" ->
                  /\ IsOptWord(p[1]) /\ IsOptDate(p[2]) /\ IsOptDate(p[3])
                  /\ IsNumber(p[4]) /\ IsNumber(p[5]) /\ IsWordPlus(p[6])
             [] verb = "ListIdentifiers" ->
                  /\ IsOptWord(p[1]) /\ IsOptDate(p[2]) /\ IsOptDate(p[3])
                  /\ IsNumber(p[4]) /\ IsNumber(p[5]) /\ p[6] = << >>
             [] verb = "ListSets" ->
                  /\ p[1] = << >> /\ IsOptDate(p[2]) /\ IsOptDate(p[3])
                  /\ IsNumber(p[4]) /\ IsNumber(p[5]) /\ p[6] = << >>

\* is_valid_resumption_token, with the pattern of the verb
is_valid_resumption_token(token, verb) == RESUMPTION_TOKEN_PATTERNS(verb, token)

\* decode_resumption_token: dict(zip(keys, token.split(':'))) over the six
\* fields of the token
decode_resumption_token(token) ==
    LET values == Split(token, ":")
        at(i) == IF i <= Len(values) THEN PyStr(values[i]) ELSE PyNone
    IN  ResumptionToken(at(1), at(2), at(3), at(4), at(5), at(6))

\* A variant of inc_resumption_token that advances by count
inc_resumption_token_ByCount(token) ==
    LET new_offset == IntOf(token.offset) + IntOf(token.count)
    IN  [token EXCEPT !.offset = PyStr(IntToStr(new_offset))]

\* inc_resumption_token
inc_resumption_token(token) ==
    LET new_offset == 1 + IntOf(token.offset) + IntOf(token.count)
    IN  [token EXCEPT !.offset = PyStr(IntToStr(new_offset))]

\* has_more_resources
has_more_resources(resources, batch_size) ==
    Len(resources) = IntOf(batch_size)

\* next_resumption_token
next_resumption_token(token, resources) ==
    IF has_more_resources(resources, token.count)
    THEN Some(inc_resumption_token(token))
    ELSE None

\* A variant of get_resumption_token_from_request that decodes the token
\* without matching it against the pattern of the verb
get_resumption_token_from_request_Unmatched(oairequest, default_count) ==
    IF Truthy(oairequest.resumptionToken)
    THEN LET token == decode_resumption_token(oairequest.resumptionToken.s)
         IN  IF IntExc(token.count) # ""
             THEN [exc |-> IntExc(token.count), token |-> Some(token)]
             ELSE IF IntOf(token.count) # default_count
             THEN [exc |-> "BadResumptionTokenError", token |-> Some(token)]
             ELSE [exc |-> "", token |-> Some(token)]
    ELSE [exc |-> "",
          token |-> Some(ResumptionToken(oairequest.set, oairequest.from_,
                             oairequest.until, PyStr(<< "0" >>),
                             PyInt(default_count), oairequest.metadataPrefix))]

\* A variant of get_resumption_token_from_request that does not compare the
\* count of the token with the configured page length
get_resumption_token_from_request_AnyCount(oairequest, default_count) ==
    IF Truthy(oairequest.resumptionToken)
    THEN IF ~is_valid_resumption_token(oairequest.resumptionToken.s,
                                       oairequest.verb.s)
         THEN [exc |-> "BadResumptionTokenError", token |-> None]
         ELSE [exc |-> "",
               token |-> Some(decode_resumption_token(
                                  oairequest.resumptionToken.s))]
    ELSE [exc |-> "",
          token |-> Some(ResumptionToken(oairequest.set, oairequest.from_,
                             oairequest.until, PyStr(<< "0" >>),
                             PyInt(default_count), oairequest.metadataPrefix))]

\* get_resumption_token_from_request: the exception raised ("" when none)
\* and the token decoded or made
get_resumption_token_from_request(oairequest, default_count) ==
    IF Truthy(oairequest.resumptionToken)
    THEN IF ~is_valid_resumption_token(oairequest.resumptionToken.s,
                                       oairequest.verb.s)
         THEN [exc |-> "BadResumptionTokenError", token |-> None]
         ELSE LET token == decode_resumption_token(oairequest.resumptionToken.s)
              IN  IF IntOf(token.count) # default_count
                  THEN [exc |-> "BadResumptionTokenError",
                        token |-> Some(token)]
                  ELSE [exc |-> "", token |-> Some(token)]
    ELSE [exc |-> "",
          token |-> Some(ResumptionToken(oairequest.set, oairequest.from_,
                             oairequest.until, PyStr(<< "0" >>),
                             PyInt(default_count), oairequest.metadataPrefix))]

(***************************************************************************)
(* datastores.InMemory and sets.SetsRegistry                               *)
(***************************************************************************)

\* A Resource: the attributes the engine reads.  setspec holds set names.
Resource(ridentifier, datestamp, setspec) ==
    [ridentifier |-> ridentifier, datestamp |-> datestamp,
     setspec |-> setspec]

\* A view is None (<< >>) or the name of a set whose static view keeps the
\* resources that carry the name in setspec.
ApplyView(view, data) ==
    IF view = None THEN data
    ELSE LET InSet(res) == view[1] \in res.setspec IN SelectSeq(data, InSet)

\* InMemory.list: the resources of the view stamped in [_from, until),
\* then those at positions offset, ..., offset + count - 1
InMemoryList(data, view, offset, count, _from, until) ==
    LET ds0 == ApplyView(view, data)
        FromOk(res) == ~TupleLess(datestamp_to_tuple(res.datestamp),
                                  datestamp_to_tuple(_from.s))
        ds1 == IF Truthy(_from) THEN SelectSeq(ds0, FromOk) ELSE ds0
        UntilOk(res) == TupleLess(datestamp_to_tuple(res.datestamp),
                                  datestamp_to_tuple(until.s))
        ds2 == IF Truthy(until) THEN SelectSeq(ds1, UntilOk) ELSE ds1
        ds3 == SubSeq(ds2, offset + 1, Len(ds2))
    IN  SubSeq(ds3, 1, IF count < Len(ds3) THEN count ELSE Len(ds3))

\* The exception InMemory.list raises while its result is read, "" when it
\* raises none: _from is turned into a tuple for each resource of the view,
\* until for each resource that is not before _from
InMemoryListExc(data, view, _from, until) ==
    LET ds0 == ApplyView(view, data)
        from_exc == IF Truthy(_from) THEN datestamp_to_tuple_exc(_from.s)
                    ELSE ""
        FromOk(res) == ~TupleLess(datestamp_to_tuple(res.datestamp),
                                  datestamp_to_tuple(_from.s))
    IN  IF ds0 # << >> /\ from_exc # "" THEN from_exc
        ELSE IF ~Truthy(until) THEN ""
        ELSE IF (IF Truthy(_from) THEN SelectSeq(ds0, FromOk) ELSE ds0) = << >>
        THEN ""
        ELSE datestamp_to_tuple_exc(until.s)

\* SetsRegistry.get_view: static_views.get(name), None for a name (or
\* None) that is no registered set
get_view(static_views, name) ==
    IF name.ty = "str" /\ name.s \in static_views THEN Some(name.s) ELSE None

(***************************************************************************)
(* Bounds and the inputs of the model                                      *)
(***************************************************************************)

\* The most resources added to the DataStore
MaxResources == 2

\* The largest configured page length (Repository.listslen)
MaxListsLen == 2

\* The most pages one scan is followed for
MaxPages == 6

\* default_from and default_until of new_from_request
DefaultFrom == PyStr(Date(1998, 1, 1))
DefaultUntil == PyStr(Date(1999, 12, 31))

\* The registered static sets; 'b:c' is a hierarchical setSpec
SetNames == { << "a" >>, << "b", ":", "c" >> }

oai_dc == << "o", "a", "i", "_", "d", "c" >>

ResourceDates == { Date(1998, 6, 30), Date(1998, 12, 31), Date(1999, 6, 30) }

SetSpecs == { {<< "a" >>}, {<< "b", ":", "c" >>} }

FromArgs == { PyNone, PyStr(Date(1999, 1, 1)) }

UntilArgs == { PyNone, PyStr(Date(1998, 12, 31)), PyStr(Date(1999, 6, 30)) }

SetArgs == { PyNone } \cup { PyStr(s) : s \in SetNames }

\* The first requests of a harvest: no resumptionToken
FreshRequests ==
    { OAIRequest(PyStr("ListRecords"), PyNone, PyStr(oai_dc), s, PyNone, f, u) :
          s \in SetArgs, f \in FromArgs, u \in UntilArgs }
    \cup
    { OAIRequest(PyStr("ListIdentifiers"), PyNone, PyNone, PyNone, PyNone,
                 f, u) : f \in FromArgs, u \in UntilArgs }

Colon == << ":" >>

\* Tokens a client may send that no response carried: n is the page length
\* they claim.
ClientTokens(n) ==
    LET cnt == IntToStr(n)
        d9801 == Date(1998, 1, 1)
        d9812 == Date(1998, 12, 31)
        d9901 == Date(1999, 1, 1)
        tail == Colon \o cnt \o Colon \o oai_dc
    IN  { \* an anchor after until
          << "a" >> \o Colon \o d9801 \o Colon \o d9812 \o Colon \o d9901
              \o << "(", "0", ")" >> \o tail,
          \* an anchor before from
          Colon \o d9901 \o Colon \o Date(1999, 12, 31) \o Colon \o d9801
              \o << "(", "0", ")" >> \o tail,
          \* a second page
          Colon \o d9801 \o Colon \o Date(1999, 12, 31) \o Colon \o d9801
              \o << "(", "1", ")" >> \o tail,
          \* no from and no until
          Colon \o Colon \o Colon \o d9801 \o << "(", "0", ")" >> \o tail,
          \* no rows skipped, written with two digits
          Colon \o d9801 \o Colon \o d9812 \o Colon \o d9801
              \o << "(", "0", "0", ")" >> \o tail,
          \* a numeric offset
          Colon \o d9801 \o Colon \o d9812 \o Colon \o << "0" >> \o tail,
          \* another page length
          Colon \o d9801 \o Colon \o d9812 \o Colon \o d9801
              \o << "(", "0", ")" >> \o Colon \o IntToStr(n + 1) \o Colon
              \o oai_dc,
          \* a word for the page length
          Colon \o d9801 \o Colon \o d9812 \o Colon \o d9801
              \o << "(", "0", ")" >> \o Colon \o << "a" >> \o Colon \o oai_dc,
          \* five fields
          Colon \o d9801 \o Colon \o d9812 \o Colon \o d9801
              \o << "(", "0", ")" >> \o Colon \o cnt,
          \* no metadataPrefix
          Colon \o d9801 \o Colon \o d9812 \o Colon \o d9801
              \o << "(", "0", ")" >> \o Colon \o cnt \o Colon }

TokenRequest(verb, tok) ==
    OAIRequest(PyStr(verb), PyNone, PyNone, PyNone, PyStr(tok), PyNone, PyNone)

(***************************************************************************)
(* State                                                                   *)
(***************************************************************************)

VARIABLES
    data,        \* InMemory.data: the resources, in insertion order
    listslen,    \* the configured page length
    pc,          \* "setup", "paging", "done" (no next token) or "failed"
    origin,      \* "fresh": the scan began without a token; "client": it
                 \* began with a token the client made up
    request,     \* the request last handled: an OAIRequest or, of
                 \* handle_request, the parsed query string
    token,       \* the cursor of the last page, or None
    resources,   \* the last page
    nextToken,   \* next(token, resources), or None
    outcome,     \* the exception the last operation raised, "" for none
    delivered,   \* the pages delivered since the scan began
    rollovers,   \* how often next took the year rollover
    response,    \* the last response: its kind and its resumptionToken
    calls        \* the DataStore and SetsRegistry operations the last
                 \* request invoked, in order

vars == << data, listslen, pc, origin, request, token, resources,
           nextToken, outcome, delivered, rollovers, response, calls >>

NoRequest == OAIRequest(PyNone, PyNone, PyNone, PyNone, PyNone, PyNone, PyNone)

Init ==
    /\ data = << >>
    /\ listslen \in 0..MaxListsLen
    /\ pc = "setup"
    /\ origin = "fresh"
    /\ request = NoRequest
    /\ token = None
    /\ resources = << >>
    /\ nextToken = None
    /\ outcome = ""
    /\ delivered = << >>
    /\ rollovers = 0
    /\ response = [kind |-> "", resumptionToken |-> << >>]
    /\ calls = << >>

\* InMemory.add.  Resources are added in datestamp order, under new
\* identifiers.
add(datestamp, setspec) ==
    /\ pc = "setup"
    /\ Len(data) < MaxResources
    /\ IF data = << >> THEN TRUE
       ELSE ~StrLess(datestamp, data[Len(data)].datestamp)
    /\ data' = Append(data, Resource(Len(data) + 1, datestamp, setspec))
    /\ UNCHANGED << listslen, pc, origin, request, token, resources,
                    nextToken, outcome, delivered, rollovers, response,
                    calls >>

\* The page of a cursor: the DataStore is asked through the query_ methods
QueryPage(self) ==
    InMemoryList(data, get_view(SetNames, self.set), query_offset(self),
                 query_count(self), PyStr(query_from(self)),
                 PyStr(query_until(self)))

\* Whether next(self, page) takes the year rollover
TakesRollover(self, page) ==
    ~_has_more_resources(page, self.count) /\ _has_more_search_space(self)

\* One page: the cursor is queried and next is applied to its page.
ServePage(req, self) ==
    /\ request' = req
    /\ token' = Some(self)
    /\ IF ~CanQuery(self)
       THEN /\ outcome' = "ValueError"
            /\ pc' = "failed"
            /\ response' = [kind |-> "ValueError", resumptionToken |-> << >>]
            /\ calls' = << >>
            /\ UNCHANGED << resources, nextToken, delivered, rollovers >>
       ELSE LET page == QueryPage(self)
                nxt == next(self, page)
            IN  /\ resources' = page
                /\ nextToken' = nxt
                /\ delivered' = Append(delivered, page)
                /\ rollovers' = rollovers
                                  + (IF TakesRollover(self, page) THEN 1 ELSE 0)
                /\ outcome' = ""
                /\ response' = [kind |-> req.verb.s,
                                resumptionToken |->
                                    encoded_resumption_token(nxt)]
                /\ calls' = << "get_view", "list" >>
                /\ pc' = IF nxt = None THEN "done" ELSE "paging"

\* A request is turned into a cursor by new_from_request and served.
Serve(req) ==
    LET r == new_from_request(req, listslen, DefaultFrom, DefaultUntil)
    IN  IF r.exc # ""
        THEN /\ request' = req
             /\ outcome' = r.exc
             /\ pc' = "failed"
             /\ response' = [kind |-> r.exc, resumptionToken |-> << >>]
             /\ calls' = << >>
             /\ UNCHANGED << token, resources, nextToken, delivered,
                             rollovers >>
        ELSE ServePage(req, r.token[1])

\* The first request of a harvest
FirstPage ==
    /\ pc = "setup"
    /\ \E req \in FreshRequests : Serve(req)
    /\ origin' = "fresh"
    /\ UNCHANGED << data, listslen >>

\* A request with a token the client made up
ClientPage ==
    /\ pc = "setup"
    /\ \E verb \in {"ListRecords", "ListIdentifiers"} :
         \E tok \in ClientTokens(listslen) : Serve(TokenRequest(verb, tok))
    /\ origin' = "client"
    /\ UNCHANGED << data, listslen >>

\* The client sends back the token of the last response.
NextPage ==
    /\ pc = "paging"
    /\ Len(delivered) < MaxPages
    /\ Serve(TokenRequest(request.verb.s, response.resumptionToken))
    /\ UNCHANGED << data, listslen, origin >>

NextCursor ==
    \/ \E d \in ResourceDates, s \in SetSpecs : add(d, s)
    \/ FirstPage
    \/ ClientPage
    \/ NextPage

SpecCursor == Init /\ [][NextCursor]_vars

(***************************************************************************)
(* repository: the request, the argument checks and Repository             *)
(***************************************************************************)

\* OAIPMH_LEGAL_ARGS
OAIPMH_LEGAL_ARGS ==
    {"verb", "identifier", "metadataPrefix", "set", "resumptionToken",
     "from", "until"}

\* A parsed query string (urllib.parse.parse_qs): the list of values of each
\* argument, << >> for an argument the query string does not hold.  "other"
\* is an argument name that is not legal.
ArgNames == OAIPMH_LEGAL_ARGS \cup {"other"}

\* The arguments a query string holds
Keys(parsed_qstr) == { k \in ArgNames : parsed_qstr[k] # << >> }

\* The verb None: a verb is held as one value, not as its characters
NoVerb == [ty |-> "None", s |-> "", n |-> 0]

\* get_or_default, with the default None
get_or_default(mapping, key) ==
    IF mapping[key] = << >> THEN (IF key = "verb" THEN NoVerb ELSE PyNone)
    ELSE PyStr(mapping[key][1])

\* has_illegal_args
has_illegal_args(parsed_qstr) ==
    \E arg \in Keys(parsed_qstr) : arg \notin OAIPMH_LEGAL_ARGS

\* has_repeated_args
has_repeated_args(parsed_qstr) ==
    \E arg \in Keys(parsed_qstr) : Len(parsed_qstr[arg]) > 1

\* oairequest_from_querystring
oairequest_from_querystring(parsed_qstr) ==
    OAIRequest(get_or_default(parsed_qstr, "verb"),
               get_or_default(parsed_qstr, "identifier"),
               get_or_default(parsed_qstr, "metadataPrefix"),
               get_or_default(parsed_qstr, "set"),
               get_or_default(parsed_qstr, "resumptionToken"),
               get_or_default(parsed_qstr, "from"),
               get_or_default(parsed_qstr, "until"))

\* check_request_args: [k for k, v in asdict(oaireq).items() if v], where
\* asdict strips the underscore of from_.  A verb in a query string is
\* never empty.
detected_args(oaireq) ==
    { k \in OAIPMH_LEGAL_ARGS :
          IF k = "verb" THEN oaireq.verb.ty # "None"
          ELSE Truthy(IF k = "from" THEN oaireq.from_ ELSE oaireq[k]) }

\* are_equal
are_equal(expected_args, detected) == expected_args = detected

\* check_listrecords_args
check_listrecords_args(args) ==
    IF "verb" \notin args THEN FALSE
    ELSE IF "resumptionToken" \in args
    THEN args \cap {"from", "until", "set", "metadataPrefix"} = {}
    ELSE "metadataPrefix" \in args

\* check_listidentifiers_args
check_listidentifiers_args(args) ==
    IF "verb" \notin args THEN FALSE
    ELSE IF "resumptionToken" \in args
    THEN args \cap {"from", "until", "set", "metadataPrefix"} = {}
    ELSE "metadataPrefix" \notin args

\* check_listsets_args
check_listsets_args(args) ==
    IF "verb" \notin args THEN FALSE
    ELSE IF "resumptionToken" \in args
    THEN args \cap {"from", "until", "set"} = {}
    ELSE "metadataPrefix" \notin args

\* Repository.verbs
verbs ==
    {"Identify", "GetRecord", "ListRecords", "ListIdentifiers",
     "ListMetadataFormats", "ListSets"}

\* Repository.formats, as add_metadataformat filled it at startup
formats == { oai_dc }

\* What a handler returns or raises: the serializer it returned through
\* ("" when it raised), the exception it raised ("" when it returned), the
\* token it decoded or made, the resources or sets it read, the next token
\* and the operations it invoked on the DataStore and the SetsRegistry
Result(kind, exc, tok, res, nxt, ops) ==
    [kind |-> kind, exc |-> exc, token |-> tok, resources |-> res,
     next_token |-> nxt, calls |-> ops]

Raise(exc, tok, ops) == Result("", exc, tok, << >>, None, ops)

\* InMemory.get
InMemoryGet(ridentifier) ==
    LET found == { i \in 1..Len(data) :
                       IntToStr(data[i].ridentifier) = ridentifier }
    IN  IF found = {} THEN [exc |-> "DoesNotExistError", resource |-> None]
        ELSE [exc |-> "", resource |-> Some(data[CHOOSE i \in found : TRUE])]

\* SetsRegistry.list as list_sets calls it: the static sets from position
\* offset on, count of them at most
setsreg_list(offset, count) ==
    LET statics == << << "a" >>, << "b", ":", "c" >> >>
        rest == SubSeq(statics, offset + 1, Len(statics))
    IN  SubSeq(rest, 1, IF count < Len(rest) THEN count ELSE Len(rest))

\* A variant of _filter_records that lists the whole DataStore when the set
\* of the token has no view
_filter_records_NoViewIsAll(tok) ==
    LET view == get_view(SetNames, tok.set)
    IN  IF IntExc(tok.offset) # ""
        THEN [exc |-> IntExc(tok.offset), resources |-> << >>,
              calls |-> << "get_view" >>]
        ELSE IF IntExc(tok.count) # ""
        THEN [exc |-> IntExc(tok.count), resources |-> << >>,
              calls |-> << "get_view" >>]
        ELSE [exc |-> "",
              resources |-> InMemoryList(data, view, IntOf(tok.offset),
                                         IntOf(tok.count), tok.from_,
                                         tok.until),
              calls |-> << "get_view", "list" >>]

\* Repository._filter_records.  offset and count, which the call passes
\* first, and view, _from and until, which it passes by name, are bound to
\* the parameters of InMemory.list of these names.
_filter_records(tok) ==
    LET view == get_view(SetNames, tok.set)
    IN  IF view = None
        THEN [exc |-> "SetNameError", resources |-> << >>,
              calls |-> << "get_view" >>]
        ELSE IF IntExc(tok.offset) # ""
        THEN [exc |-> IntExc(tok.offset), resources |-> << >>,
              calls |-> << "get_view" >>]
        ELSE IF IntExc(tok.count) # ""
        THEN [exc |-> IntExc(tok.count), resources |-> << >>,
              calls |-> << "get_view" >>]
        ELSE IF InMemoryListExc(data, view, tok.from_, tok.until) # ""
        THEN [exc |-> InMemoryListExc(data, view, tok.from_, tok.until),
              resources |-> << >>, calls |-> << "get_view", "list" >>]
        ELSE [exc |-> "",
              resources |-> InMemoryList(data, view, IntOf(tok.offset),
                                         IntOf(tok.count), tok.from_,
                                         tok.until),
              calls |-> << "get_view", "list" >>]

\* Repository.identify
identify(oairequest) ==
    IF ~are_equal({"verb"}, detected_args(oairequest))
    THEN Raise("BadArgumentError", None, << >>)
    ELSE Result("Identify", "", None, << >>, None, << >>)

\* A variant of get_record whose argument check asks for verb,
\* metadataPrefix and identifier and allows others besides
get_record_AtLeast(oairequest) ==
    IF ~({"verb", "metadataPrefix", "identifier"}
             \subseteq detected_args(oairequest))
    THEN Raise("BadArgumentError", None, << >>)
    ELSE IF oairequest.metadataPrefix.s \notin formats
    THEN Result("cannotDisseminateFormat", "", None, << >>, None, << >>)
    ELSE LET got == InMemoryGet(oairequest.identifier.s)
         IN  IF got.exc # "" THEN Raise(got.exc, None, << "get" >>)
             ELSE Result("GetRecord", "", None, got.resource, None,
                         << "get" >>)

\* A variant of get_record that asks the DataStore for the resource before
\* it looks the metadataPrefix up
get_record_LookupFirst(oairequest) ==
    IF ~are_equal({"verb", "metadataPrefix", "identifier"},
                  detected_args(oairequest))
    THEN Raise("BadArgumentError", None, << >>)
    ELSE LET got == InMemoryGet(oairequest.identifier.s)
         IN  IF got.exc # "" THEN Raise(got.exc, None, << "get" >>)
             ELSE IF oairequest.metadataPrefix.s \notin formats
             THEN Result("cannotDisseminateFormat", "", None, << >>, None,
                         << "get" >>)
             ELSE Result("GetRecord", "", None, got.resource, None,
                         << "get" >>)

\* Repository.get_record
get_record(oairequest) ==
    IF ~are_equal({"verb", "metadataPrefix", "identifier"},
                  detected_args(oairequest))
    THEN Raise("BadArgumentError", None, << >>)
    ELSE IF oairequest.metadataPrefix.s \notin formats
    THEN Result("cannotDisseminateFormat", "", None, << >>, None, << >>)
    ELSE LET got == InMemoryGet(oairequest.identifier.s)
         IN  IF got.exc # "" THEN Raise(got.exc, None, << "get" >>)
             ELSE Result("GetRecord", "", None, got.resource, None,
                         << "get" >>)

\* Repository.list_records
list_records(oairequest) ==
    IF ~check_listrecords_args(detected_args(oairequest))
    THEN Raise("BadArgumentError", None, << >>)
    ELSE IF ~Truthy(oairequest.resumptionToken)
            /\ oairequest.metadataPrefix.s \notin formats
    THEN Result("cannotDisseminateFormat", "", None, << >>, None, << >>)
    ELSE LET got == get_resumption_token_from_request(oairequest, listslen)
         IN  IF got.exc # "" THEN Raise(got.exc, got.token, << >>)
             ELSE IF got.token[1].metadataPrefix.s \notin formats
             THEN Raise("KeyError", got.token, << >>)
             ELSE LET found == _filter_records(got.token[1])
                  IN  IF found.exc # ""
                      THEN Raise(found.exc, got.token, found.calls)
                      ELSE Result("ListRecords", "", got.token,
                                  found.resources,
                                  next_resumption_token(got.token[1],
                                                        found.resources),
                                  found.calls)

\* A variant of list_identifiers that resolves the token and reads the page
\* before it checks the arguments
list_identifiers_QueryFirst(oairequest) ==
    LET got == get_resumption_token_from_request(oairequest, listslen)
    IN  IF got.exc # "" THEN Raise(got.exc, got.token, << >>)
        ELSE LET found == _filter_records(got.token[1])
             IN  IF found.exc # ""
                 THEN Raise(found.exc, got.token, found.calls)
                 ELSE IF ~check_listidentifiers_args(detected_args(oairequest))
                 THEN Raise("BadArgumentError", None, found.calls)
                 ELSE Result("ListIdentifiers", "", got.token,
                             found.resources,
                             next_resumption_token(got.token[1],
                                                   found.resources),
                             found.calls)

\* Repository.list_identifiers
list_identifiers(oairequest) ==
    IF ~check_listidentifiers_args(detected_args(oairequest))
    THEN Raise("BadArgumentError", None, << >>)
    ELSE LET got == get_resumption_token_from_request(oairequest, listslen)
         IN  IF got.exc # "" THEN Raise(got.exc, got.token, << >>)
             ELSE LET found == _filter_records(got.token[1])
                  IN  IF found.exc # ""
                      THEN Raise(found.exc, got.token, found.calls)
                      ELSE Result("ListIdentifiers", "", got.token,
                                  found.resources,
                                  next_resumption_token(got.token[1],
                                                        found.resources),
                                  found.calls)

\* Repository.list_metadata_formats
list_metadata_formats(oairequest) ==
    IF ~are_equal({"verb"}, detected_args(oairequest))
    THEN Raise("BadArgumentError", None, << >>)
    ELSE Result("ListMetadataFormats", "", None, << >>, None, << >>)

\* Repository.list_sets
list_sets(oairequest) ==
    IF ~check_listsets_args(detected_args(oairequest))
    THEN Raise("BadArgumentError", None, << >>)
    ELSE LET got == get_resumption_token_from_request(oairequest, listslen)
         IN  IF got.exc # "" THEN Raise(got.exc, got.token, << >>)
             ELSE IF IntExc(got.token[1].offset) # ""
             THEN Raise(IntExc(got.token[1].offset), got.token, << >>)
             ELSE LET sets_list == setsreg_list(IntOf(got.token[1].offset),
                                                IntOf(got.token[1].count))
                  IN  Result("ListSets", "", got.token, sets_list,
                             next_resumption_token(got.token[1], sets_list),
                             << "setsreg.list" >>)

\* Repository.verbs[oairequest.verb](oairequest)
call_verb(oairequest) ==
    CASE oairequest.verb.s = "Identify" -> identify(oairequest)
      [] oairequest.verb.s = "GetRecord" -> get_record(oairequest)
      [] oairequest.verb.s = "ListRecords" -> list_records(oairequest)
      [] oairequest.verb.s = "ListIdentifiers" -> list_identifiers(oairequest)
      [] oairequest.verb.s = "ListMetadataFormats" ->
             list_metadata_formats(oairequest)
      [] oairequest.verb.s = "ListSets" -> list_sets(oairequest)

\* The except clauses of handle_request: what the handler raised is turned
\* into the error response of its class; an exception of no such class
\* leaves handle_request.
except_clauses(r) ==
    CASE r.exc \in {"BadArgumentError", "SetNameError"} ->
             [r EXCEPT !.kind = "badArgument"]
      [] r.exc = "DoesNotExistError" -> [r EXCEPT !.kind = "idDoesNotExist"]
      [] r.exc = "BadResumptionTokenError" ->
             [r EXCEPT !.kind = "badResumptionToken"]
      [] OTHER -> r

\* A variant of handle_request that looks the verb up before it checks the
\* names and the repetition of the arguments
handle_request_VerbFirst(parsed_qstr) ==
    IF get_or_default(parsed_qstr, "verb").s \notin verbs
    THEN Result("badVerb", "", None, << >>, None, << >>)
    ELSE IF has_illegal_args(parsed_qstr) \/ has_repeated_args(parsed_qstr)
    THEN Result("badArgument", "", None, << >>, None, << >>)
    ELSE except_clauses(call_verb(oairequest_from_querystring(parsed_qstr)))

\* A variant of handle_request that takes a missing verb for a missing
\* argument
handle_request_NoVerbIsArgument(parsed_qstr) ==
    IF has_illegal_args(parsed_qstr) \/ has_repeated_args(parsed_qstr)
    THEN Result("badArgument", "", None, << >>, None, << >>)
    ELSE IF parsed_qstr["verb"] = << >>
    THEN Result("badArgument", "", None, << >>, None, << >>)
    ELSE IF get_or_default(parsed_qstr, "verb").s \notin verbs
    THEN Result("badVerb", "", None, << >>, None, << >>)
    ELSE except_clauses(call_verb(oairequest_from_querystring(parsed_qstr)))

\* Repository.handle_request
handle_request(parsed_qstr) ==
    IF has_illegal_args(parsed_qstr) \/ has_repeated_args(parsed_qstr)
    THEN Result("badArgument", "", None, << >>, None, << >>)
    ELSE IF get_or_default(parsed_qstr, "verb").s \notin verbs
    THEN Result("badVerb", "", None, << >>, None, << >>)
    ELSE except_clauses(call_verb(oairequest_from_querystring(parsed_qstr)))

(***************************************************************************)
(* The requests a Repository is sent                                       *)
(***************************************************************************)

Query(verb, identifier, metadataPrefix, set, resumptionToken, from, until, other) ==
    [verb |-> verb, identifier |-> identifier,
     metadataPrefix |-> metadataPrefix, set |-> set,
     resumptionToken |-> resumptionToken, from |-> from, until |-> until,
     other |-> other]

\* The values a query string holds for an argument of an OAIRequest
Vals(v) == IF v.ty = "None" THEN << >> ELSE << v.s >>

\* The query string oairequest_from_querystring turns into r
QueryOf(r) ==
    Query(Vals(r.verb), Vals(r.identifier), Vals(r.metadataPrefix),
          Vals(r.set), Vals(r.resumptionToken), Vals(r.from_), Vals(r.until),
          << >>)

\* Query strings with an argument that is not legal or with an argument
\* given twice, for a verb that is missing, unknown or known
IllFormedQueries ==
    LET base == { QueryOf(OAIRequest(v, PyNone, p, PyNone, PyNone, PyNone,
                                     PyNone)) :
                      v \in {NoVerb, PyStr("a"), PyStr("Identify"),
                             PyStr("ListRecords")},
                      p \in {PyNone, PyStr(oai_dc)} }
    IN  { [q EXCEPT !.other = << "a" >>] : q \in base }
        \cup { [q EXCEPT !.verb = q.verb \o q.verb] :
                   q \in { b \in base : b.verb # << >> } }
        \cup { [q EXCEPT !.metadataPrefix = q.metadataPrefix \o q.metadataPrefix] :
                   q \in { b \in base : b.metadataPrefix # << >> } }

\* The value the query strings of the matrix give an argument
MatrixValue(arg, tok) ==
    CASE arg = "identifier" -> << "1" >>
      [] arg = "metadataPrefix" -> oai_dc
      [] arg = "set" -> << "a" >>
      [] arg = "resumptionToken" -> tok
      [] arg = "from" -> Date(1998, 1, 1)
      [] arg = "until" -> Date(1999, 6, 30)

\* The query strings of the six verbs with every subset of the other legal
\* arguments, tok being the resumptionToken of those that hold one
MatrixQueries(tok) ==
    { [k \in ArgNames |->
           IF k = "verb" THEN << v >>
           ELSE IF k \in present THEN << MatrixValue(k, tok) >> ELSE << >>] :
          v \in verbs, present \in SUBSET (OAIPMH_LEGAL_ARGS \ {"verb"}) }

\* A date and time of seconds granularity
DateTime == Date(1998, 1, 1) \o << "T", "0", "0", ":", "0", "0", ":", "0", "0", "Z" >>

\* Listing requests whose from or until is no date of day granularity, and
\* requests whose from is later than until
DateFormatQueries ==
    { QueryOf(OAIRequest(PyStr(v[1]), PyNone, v[2], s, PyNone, d[1], d[2])) :
          v \in { << "ListRecords", PyStr(oai_dc) >>,
                  << "ListIdentifiers", PyNone >> },
          s \in { PyNone, PyStr(<< "a" >>) },
          d \in { << PyStr(<< "b", "a", "d" >>), PyNone >>,
                  << PyStr(DateTime), PyNone >>,
                  << PyNone, PyStr(DateTime) >>,
                  << PyStr(Date(1998, 1, 1)), PyStr(DateTime) >>,
                  << PyStr(Date(1999, 6, 30)), PyStr(Date(1998, 1, 1)) >> } }

\* Listing requests for a set that is not registered
UnknownSetQueries ==
    { QueryOf(OAIRequest(PyStr("ListRecords"), PyNone, PyStr(p),
                         PyStr(<< "e" >>), PyNone, PyNone, PyNone)) :
          p \in {oai_dc, << "b" >>} }
    \cup
    { QueryOf(OAIRequest(PyStr("ListIdentifiers"), PyNone, PyNone,
                         PyStr(<< "e" >>), PyNone, PyNone, PyNone)) }

\* The first requests of a harvest and the requests of the other verbs,
\* well formed or not
FirstQueries ==
    { QueryOf(OAIRequest(PyStr("ListRecords"), PyNone, PyStr(oai_dc), s,
                         PyNone, f, u)) :
          s \in SetArgs, f \in FromArgs, u \in {PyNone, PyStr(Date(1999, 6, 30))} }
    \cup
    { QueryOf(OAIRequest(PyStr("ListIdentifiers"), PyNone, PyNone, s, PyNone,
                         PyNone, u)) :
          s \in {PyNone, PyStr(<< "a" >>)},
          u \in {PyNone, PyStr(Date(1999, 6, 30))} }
    \cup
    { QueryOf(OAIRequest(v, a[1], a[2], a[3], PyNone, PyNone, PyNone)) :
          v \in {NoVerb, PyStr("Identify"), PyStr("GetRecord"),
                 PyStr("ListRecords"), PyStr("ListIdentifiers"),
                 PyStr("ListMetadataFormats"), PyStr("ListSets"),
                 PyStr("a"), PyStr("listrecords")},
          a \in { << PyNone, PyNone, PyNone >>,
                  << PyStr(<< "1" >>), PyStr(oai_dc), PyNone >>,
                  << PyStr(<< "1" >>), PyStr(<< "b" >>), PyNone >>,
                  << PyStr(<< "9" >>), PyStr(oai_dc), PyNone >>,
                  << PyNone, PyStr(<< "b" >>), PyNone >>,
                  << PyNone, PyNone, PyStr(<< "a" >>) >> } }
    \cup IllFormedQueries
    \cup UnknownSetQueries
    \cup DateFormatQueries
    \cup { q \in MatrixQueries(<< "a" >>) : q.resumptionToken = << >> }

\* Tokens of the integer-offset form that a client may make up: n is the
\* page length they claim.
IntegerTokens(n) ==
    LET cnt == IntToStr(n)
    IN  { Colon \o Colon \o Colon \o << "0" >> \o Colon \o cnt \o Colon
              \o oai_dc,
          << "a" >> \o Colon \o Colon \o Colon \o << "1" >> \o Colon \o cnt
              \o Colon \o oai_dc,
          Colon \o Colon \o Colon \o << "0" >> \o Colon \o cnt \o Colon,
          << "a" >> \o Colon \o Colon \o Colon \o << "0" >> \o Colon \o cnt
              \o Colon,
          \* another page length
          << "a" >> \o Colon \o Colon \o Colon \o << "0" >> \o Colon
              \o IntToStr(n + 1) \o Colon \o oai_dc,
          \* another page length, of the form both ListSets patterns take
          Colon \o Colon \o Colon \o << "0" >> \o Colon \o IntToStr(n + 1)
              \o Colon,
          \* a set that is not registered
          << "e" >> \o Colon \o Colon \o Colon \o << "0" >> \o Colon \o cnt
              \o Colon \o oai_dc,
          << "e" >> \o Colon \o Colon \o Colon \o << "0" >> \o Colon \o cnt
              \o Colon,
          << "e" >> \o Colon \o Colon \o Colon \o << "0" >> \o Colon \o cnt
              \o Colon \o << "b" >>,
          \* a format that is not registered
          << "a" >> \o Colon \o Colon \o Colon \o << "0" >> \o Colon \o cnt
              \o Colon \o << "b" >>,
          \* a word for the offset
          << "a" >> \o Colon \o Colon \o Colon \o << "a" >> \o Colon \o cnt
              \o Colon \o oai_dc,
          \* four fields
          << "a" >> \o Colon \o Colon \o Colon \o << "0" >> }

\* The requests that carry a token the client made up
ClientQueries(n) ==
    { QueryOf(OAIRequest(PyStr(v), PyNone, PyNone, PyNone, PyStr(tok), PyNone,
                         PyNone)) :
          v \in {"ListRecords", "ListIdentifiers", "ListSets", "Identify"},
          tok \in IntegerTokens(n) \cup ClientTokens(n) }
    \cup
    { QueryOf(OAIRequest(PyStr(v), PyNone, a[1], a[2], PyStr(tok), PyNone,
                         PyNone)) :
          v \in {"ListRecords", "ListIdentifiers", "ListSets"},
          tok \in { << "a" >> \o Colon \o Colon \o Colon \o << "0" >>,
                    Colon \o Colon \o Colon \o << "0" >> \o Colon
                        \o IntToStr(n) \o Colon },
          a \in { << PyStr(oai_dc), PyNone >>, << PyNone, PyStr(<< "a" >>) >> } }
    \cup
    { q \in MatrixQueries(<< "a" >> \o Colon \o Colon \o Colon \o << "0" >>
                              \o Colon \o IntToStr(n) \o Colon \o oai_dc) :
          q.resumptionToken # << >> }

ListingKinds == {"ListRecords", "ListIdentifiers", "ListSets"}

\* A variant of HandleRequest in which the resources a listing returns are
\* taken out of the DataStore
HandleRequest_Consuming(parsed_qstr) ==
    \E r \in { handle_request(parsed_qstr) } :
        /\ request' = parsed_qstr
        /\ token' = r.token
        /\ resources' = r.resources
        /\ nextToken' = r.next_token
        /\ outcome' = r.exc
        /\ calls' = r.calls
        /\ response' = [kind |-> r.kind,
                        resumptionToken |->
                            IF r.kind \in ListingKinds
                            THEN encoded_resumption_token(r.next_token)
                            ELSE << >>]
        /\ delivered' = IF r.kind \in ListingKinds
                        THEN Append(delivered, r.resources) ELSE delivered
        /\ pc' = IF r.kind \in ListingKinds /\ r.next_token # None
                 THEN "paging"
                 ELSE IF r.exc = "" THEN "done" ELSE "failed"
        /\ data' = IF r.kind \in {"ListRecords", "ListIdentifiers"}
                   THEN LET Kept(res) == \A i \in 1..Len(r.resources) :
                                             r.resources[i] # res
                        IN  SelectSeq(data, Kept)
                   ELSE data
        /\ UNCHANGED << listslen, rollovers >>

\* handle_request is given a query string and its response is kept.
HandleRequest(parsed_qstr) ==
    \E r \in { handle_request(parsed_qstr) } :
        /\ request' = parsed_qstr
        /\ token' = r.token
        /\ resources' = r.resources
        /\ nextToken' = r.next_token
        /\ outcome' = r.exc
        /\ calls' = r.calls
        /\ response' = [kind |-> r.kind,
                        resumptionToken |->
                            IF r.kind \in ListingKinds
                            THEN encoded_resumption_token(r.next_token)
                            ELSE << >>]
        /\ delivered' = IF r.kind \in ListingKinds
                        THEN Append(delivered, r.resources) ELSE delivered
        /\ pc' = IF r.kind \in ListingKinds /\ r.next_token # None
                 THEN "paging"
                 ELSE IF r.exc = "" THEN "done" ELSE "failed"
        /\ UNCHANGED << data, listslen, rollovers >>

\* A request without a token
FirstRequest ==
    /\ pc = "setup"
    /\ \E q \in FirstQueries : HandleRequest(q)
    /\ origin' = "fresh"

\* A request with a token the client made up
ClientRequest ==
    /\ pc = "setup"
    /\ \E q \in ClientQueries(listslen) : HandleRequest(q)
    /\ origin' = "client"

\* The client sends back the token of the last response.
NextRequest ==
    /\ pc = "paging"
    /\ Len(delivered) < MaxPages
    /\ LET q == QueryOf(OAIRequest(PyStr(request.verb[1]), PyNone, PyNone,
                                   PyNone, PyStr(response.resumptionToken),
                                   PyNone, PyNone))
       IN  HandleRequest(q)
    /\ UNCHANGED origin

Next ==
    \/ \E d \in ResourceDates, s \in SetSpecs : add(d, s)
    \/ FirstRequest
    \/ ClientRequest
    \/ NextRequest

Spec == Init /\ [][Next]_vars

(***************************************************************************)
(* Properties of the cursor and of a harvest that follows it               *)
(***************************************************************************)

\* The cursor of the last page and the cursor next made of it
Cur == token[1]
Nxt == nextToken[1]

\* The last request was answered with a page
PageServed == pc \in {"paging", "done"}

\* The cursors the engine holds
HeldCursors ==
    { token[i] : i \in DOMAIN token } \cup { nextToken[i] : i \in DOMAIN nextToken }

\* The bounds of a cursor are dates, from no later than until
HasWindow(c) ==
    /\ CanQuery(c)
    /\ Truthy(c.from_) /\ Truthy(c.until)
    /\ StrLeq(c.from_.s, c.until.s)

YearOf(date) == StrToInt(Prefix(date, 4))

\* The years from the year of from to the year of until
YearSpan(c) == YearOf(c.until.s) - YearOf(c.from_.s) + 1

\* Two cursors differ in the offset at most
SameButOffset(a, b) ==
    \A f \in {"set", "from_", "until", "count", "metadataPrefix"} : a[f] = b[f]

\* The page of the last response was full
FullPage == Len(resources) = IntOf(Cur.count)

\* The year window of the last cursor ends before until
WindowBeforeUntil == StrLess(query_until(Cur), Cur.until.s)

Delivered(res) == \E p \in 1..Len(delivered) :
                      \E k \in 1..Len(delivered[p]) : delivered[p][k] = res

\* C1: when a harvest that began without a token has reached the response
\* without a token, every resource of the requested set stamped in the
\* requested range has been delivered in some page.  The property is
\* stated for the resources stamped from from up to the day before until;
\* the claim's range also holds the resources stamped on until.
C1_NoRecordSkipped ==
    (pc = "done" /\ origin = "fresh") =>
        \A i \in 1..Len(data) :
            ( /\ (Truthy(Cur.set) => Cur.set.s \in data[i].setspec)
              /\ StrLeq(Cur.from_.s, data[i].datestamp)
              /\ StrLess(data[i].datestamp, Cur.until.s) )
            => Delivered(data[i])

\* C2: in a harvest that began without a token no resource is delivered
\* twice: not in two pages and not twice in one page.
C2_NoRecordDuplicated ==
    origin = "fresh" =>
        \A p, q \in 1..Len(delivered) :
            \A i \in 1..Len(delivered[p]), j \in 1..Len(delivered[q]) :
                delivered[p][i].ridentifier = delivered[q][j].ridentifier
                    => (p = q /\ i = j)

\* A harvest of three pages or more has ended, two of its pages held a
\* resource
C2_Witness ==
    /\ pc = "done" /\ origin = "fresh" /\ Len(delivered) >= 3
    /\ \E p, q \in 1..Len(delivered) :
           p # q /\ delivered[p] # << >> /\ delivered[q] # << >>

\* C3: a scan from a fresh cursor with from <= until ends: it takes at most
\* until.year - from.year + 1 year rollovers, and, as a full page holds a
\* resource the pages before did not and a short page closes a year, it
\* serves at most one page for each resource and each year.
C3_PaginationTerminates ==
    (origin = "fresh" /\ token # None /\ HasWindow(Cur)) =>
        /\ rollovers <= YearSpan(Cur)
        /\ Len(delivered) <= Len(data) + YearSpan(Cur)

\* C4: the date anchor of every cursor the engine holds lies in the
\* cursor's window [from, until].
C4_AnchorInWindow ==
    \A c \in HeldCursors :
        HasWindow(c) => /\ StrLeq(c.from_.s, query_from(c))
                        /\ StrLeq(query_from(c), c.until.s)

\* C5: query_until() and query_from() of every cursor the engine holds lie
\* in the same year.
C5_WindowWithinYear ==
    \A c \in HeldCursors :
        HasWindow(c) => YearOf(query_until(c)) = YearOf(query_from(c))

\* C6: after a full page next returns a cursor with the same date anchor,
\* the skip advanced by the page size and every other field unchanged,
\* also when the year window ends before until.
C6_FullPageAdvancesSkip ==
    (PageServed /\ FullPage) =>
        /\ nextToken # None
        /\ Nxt.offset = PyStr(query_from(Cur) \o << "(" >>
               \o IntToStr(query_offset(Cur) + IntOf(Cur.count)) \o << ")" >>)
        /\ query_from(Nxt) = query_from(Cur)
        /\ query_offset(Nxt) = query_offset(Cur) + IntOf(Cur.count)
        /\ SameButOffset(Nxt, Cur)

\* A full page of a window that ends before until, after a skip
C6_Witness ==
    /\ PageServed /\ FullPage /\ WindowBeforeUntil
    /\ IntOf(Cur.count) >= 1 /\ query_offset(Cur) >= 1
    /\ nextToken # None

\* C7: after a short page of a year window that ends before until, next
\* returns a cursor anchored at January 1 of the next year with skip 0 and
\* every other field unchanged.
C7_ShortPageRollsOver ==
    (PageServed /\ ~FullPage /\ WindowBeforeUntil) =>
        /\ nextToken # None
        /\ Nxt.offset = PyStr(Date(YearOf(query_from(Cur)) + 1, 1, 1)
                                  \o << "(", "0", ")" >>)
        /\ query_offset(Nxt) = 0
        /\ SameButOffset(Nxt, Cur)

\* A short page after a skip, in a window that ends before until
C7_Witness ==
    /\ PageServed /\ ~FullPage /\ WindowBeforeUntil
    /\ query_offset(Cur) >= 1
    /\ nextToken # None /\ query_from(Nxt) = Date(1999, 1, 1)

\* C8: next returns None exactly after a short page of a year window that
\* reaches until, and the response then carries the empty resumptionToken.
C8_TerminalIffShortAtUntil ==
    PageServed =>
        /\ (nextToken = None) <=> (~FullPage /\ ~WindowBeforeUntil)
        /\ (nextToken = None) <=> (response.resumptionToken = << >>)

\* The last response of a harvest over two years
C8_Witness ==
    /\ PageServed /\ nextToken = None /\ response.resumptionToken = << >>
    /\ ~FullPage /\ ~WindowBeforeUntil
    /\ rollovers >= 1 /\ Len(delivered) >= 2

\* The cursor with every value turned into the str encode writes for it
StrProjection(c) == [f \in DOMAIN c |-> PyStr(ensure_str(c[f]))]

\* C9: decode(encode(c)) is the string projection of c, for every cursor
\* the engine holds.
C9_RoundTrip ==
    \A c \in HeldCursors : decode(encode(c)) = StrProjection(c)


(***************************************************************************)
(* Properties of handle_request                                            *)
(***************************************************************************)

\* The last request carried a resumptionToken for a verb that has a token
\* pattern, and the token does not match the pattern
UnmatchedToken ==
    /\ pc # "setup"
    /\ Len(request.verb) = 1 /\ request.verb[1] \in ListingKinds
    /\ Len(request.resumptionToken) = 1
    /\ ~RESUMPTION_TOKEN_PATTERNS(request.verb[1], request.resumptionToken[1])

\* The last request passed the checks that come before the token is read:
\* no illegal and no repeated argument, and the arguments the verb allows
PassedArgumentChecks ==
    /\ Keys(request) \subseteq OAIPMH_LEGAL_ARGS
    /\ \A k \in Keys(request) : Len(request[k]) = 1
    /\ LET args == Keys(request)
       IN  IF "resumptionToken" \in args
           THEN args \cap {"from", "until", "set"} = {}
                /\ (request.verb[1] # "ListSets" => "metadataPrefix" \notin args)
           ELSE TRUE

\* C10: a resumptionToken that does not match the pattern of the request's
\* verb is never decoded into a token, no operation of the DataStore or of
\* the SetsRegistry is invoked for it and the request is answered with an
\* error; when the request passed the argument checks the error is
\* badResumptionToken.
C10_UnmatchedTokenRejected ==
    UnmatchedToken =>
        /\ token = None /\ nextToken = None
        /\ calls = << >> /\ resources = << >>
        /\ response.kind \in {"badResumptionToken", "badArgument"}
        /\ PassedArgumentChecks => response.kind = "badResumptionToken"

\* A token of four fields, which decode would fill with None, was sent to
\* a repository that holds resources and was answered badResumptionToken
C10_Witness ==
    /\ UnmatchedToken /\ PassedArgumentChecks
    /\ data # << >>
    /\ Len(Split(request.resumptionToken[1], ":")) < 6
    /\ response.kind = "badResumptionToken"

\* The last request carried a resumptionToken that matches the pattern of
\* its verb and whose count is not the configured page length
OtherCountToken ==
    /\ pc # "setup"
    /\ Len(request.verb) = 1 /\ request.verb[1] \in ListingKinds
    /\ Len(request.resumptionToken) = 1
    /\ RESUMPTION_TOKEN_PATTERNS(request.verb[1], request.resumptionToken[1])
    /\ IntOf(decode_resumption_token(request.resumptionToken[1]).count)
           # listslen

\* The same of the patterns of entities.ResumptionToken
OtherCountCursor ==
    /\ pc # "setup"
    /\ Len(request.verb) = 1 /\ request.verb[1] \in PatternVerbs
    /\ Len(request.resumptionToken) = 1
    /\ is_valid_token(request.resumptionToken[1], request.verb[1])
    /\ IntOf(decode(request.resumptionToken[1]).count) # listslen

IllegalOrRepeated ==
    /\ pc # "setup"
    /\ \/ Keys(request) \ OAIPMH_LEGAL_ARGS # {}
       \/ \E k \in Keys(request) : Len(request[k]) > 1

\* C12: a query string with an illegal argument name or a repeated argument
\* is answered badArgument by handle_request itself: no handler ran (nothing
\* was raised, no token was made or decoded, nothing was read), whatever
\* the verb, known, unknown or missing.
C12_SyntaxCheckFirst ==
    IllegalOrRepeated =>
        /\ response.kind = "badArgument"
        /\ outcome = "" /\ token = None /\ nextToken = None
        /\ calls = << >> /\ resources = << >>

\* An illegal argument came with an unknown verb, and a repeated argument
\* came with no verb: the answer was badArgument, not badVerb
C12_Witness ==
    /\ IllegalOrRepeated
    /\ response.kind = "badArgument"
    /\ \/ request.verb = << "a" >> /\ request.other # << >>
       \/ request.verb = << >> /\ Len(request.metadataPrefix) = 2

\* The last query string passed the check of names and repetition, and its
\* verb is missing or is none of the six verbs
NoKnownVerb ==
    /\ pc # "setup" /\ ~IllegalOrRepeated
    /\ \/ request.verb = << >>
       \/ request.verb[1] \notin {"Identify", "GetRecord", "ListRecords",
                                  "ListIdentifiers", "ListMetadataFormats",
                                  "ListSets"}

\* C13: a query string that passed the check of names and repetition and
\* whose verb is missing or is none of the six verbs is answered badVerb,
\* and no handler ran: nothing was raised, no token was made and nothing
\* was read.
C13_UnknownVerbIsBadVerb ==
    NoKnownVerb =>
        /\ response.kind = "badVerb"
        /\ outcome = "" /\ token = None /\ nextToken = None
        /\ calls = << >> /\ resources = << >>

\* A query string without a verb that holds other arguments was answered
\* badVerb
C13_Witness ==
    /\ NoKnownVerb
    /\ request.verb = << >> /\ Keys(request) # {}
    /\ response.kind = "badVerb"

\* The last query string passed the check of names and repetition, names a
\* listing verb and holds a resumptionToken together with one of from,
\* until, set and metadataPrefix
TokenWithFilter ==
    /\ pc # "setup" /\ ~IllegalOrRepeated
    /\ request.verb # << >> /\ request.verb[1] \in ListingKinds
    /\ "resumptionToken" \in Keys(request)
    /\ Keys(request) \cap {"from", "until", "set", "metadataPrefix"} # {}

\* C14: a request for ListRecords, ListIdentifiers or ListSets that holds a
\* resumptionToken together with from, until, set or metadataPrefix is
\* answered badArgument.
C14_TokenExcludesFilters ==
    TokenWithFilter => response.kind = "badArgument"

\* The last query string passed the check of names and repetition and asks
\* for verb without a resumptionToken
NoTokenRequest(verb) ==
    /\ pc # "setup" /\ ~IllegalOrRepeated
    /\ request.verb = << verb >>
    /\ "resumptionToken" \notin Keys(request)

\* The argument check of the handler accepted the last request
ArgumentsAccepted == outcome # "BadArgumentError"

\* C15: a ListRecords request without resumptionToken is accepted by the
\* argument check if and only if it holds metadataPrefix and, besides verb
\* and metadataPrefix, nothing but from, until and set.
C15_ListRecordsLegality ==
    NoTokenRequest("ListRecords") =>
        (ArgumentsAccepted <=>
            /\ "metadataPrefix" \in Keys(request)
            /\ Keys(request) \subseteq
                   {"verb", "metadataPrefix", "from", "until", "set"})

\* C16: a ListIdentifiers request without resumptionToken that holds, besides
\* verb, nothing but from, until, set and metadataPrefix is accepted by the
\* argument check, with metadataPrefix and without it.
C16_ListIdentifiersPrefixOptional ==
    ( /\ NoTokenRequest("ListIdentifiers")
      /\ Keys(request) \subseteq
             {"verb", "metadataPrefix", "from", "until", "set"} )
        => ArgumentsAccepted

\* The last query string passed the check of names and repetition and asks
\* for verb
RequestFor(verb) ==
    /\ pc # "setup" /\ ~IllegalOrRepeated
    /\ request.verb = << verb >>

\* C17: a GetRecord request is accepted by the argument check if and only if
\* the arguments it holds are exactly verb, metadataPrefix and identifier;
\* otherwise it is answered badArgument and nothing is read.
C17_GetRecordExactArgs ==
    RequestFor("GetRecord") =>
        /\ ArgumentsAccepted <=>
               Keys(request) = {"verb", "metadataPrefix", "identifier"}
        /\ ~ArgumentsAccepted =>
               response.kind = "badArgument" /\ calls = << >>

\* A GetRecord request that holds set besides verb, metadataPrefix and
\* identifier was answered badArgument
C17_Witness ==
    /\ RequestFor("GetRecord")
    /\ Keys(request) = {"verb", "metadataPrefix", "identifier", "set"}
    /\ data # << >>
    /\ response.kind = "badArgument"

\* C18: an Identify request is accepted by the argument check exactly when
\* verb is the only argument it holds; a ListMetadataFormats request is
\* accepted when it holds verb alone and when it holds verb and identifier.
C18_NoFilterVerbs ==
    /\ RequestFor("Identify") =>
           (ArgumentsAccepted <=> Keys(request) = {"verb"})
    /\ ( /\ RequestFor("ListMetadataFormats")
         /\ Keys(request) \in {{"verb"}, {"verb", "identifier"}} )
           => ArgumentsAccepted

\* The last request was a GetRecord with exactly the arguments it may hold
LegalGetRecord ==
    /\ RequestFor("GetRecord")
    /\ Keys(request) = {"verb", "metadataPrefix", "identifier"}

\* The resources of the DataStore that have the identifier of the request
Held ==
    { i \in 1..Len(data) :
          IntToStr(data[i].ridentifier) = request.identifier[1] }

\* C19: a GetRecord request with legal arguments is answered
\* cannotDisseminateFormat when its metadataPrefix is not registered, whether
\* or not the DataStore holds the identifier; idDoesNotExist when the prefix
\* is registered and the DataStore does not hold the identifier; and with the
\* record exactly when the prefix is registered and the identifier is held.
C19_GetRecordErrors ==
    LegalGetRecord =>
        LET registered == request.metadataPrefix[1] = oai_dc
        IN  /\ ~registered =>
                   response.kind = "cannotDisseminateFormat" /\ calls = << >>
            /\ (registered /\ Held = {}) => response.kind = "idDoesNotExist"
            /\ response.kind = "GetRecord" <=> (registered /\ Held # {})
            /\ response.kind = "GetRecord" =>
                   \E i \in Held : resources = << data[i] >>

\* The DataStore holds the identifier and the metadataPrefix is not
\* registered: the answer was cannotDisseminateFormat
C19_Witness ==
    /\ LegalGetRecord
    /\ Held # {} /\ request.metadataPrefix[1] # oai_dc
    /\ response.kind = "cannotDisseminateFormat"

\* The last request was a ListRecords or ListIdentifiers without
\* resumptionToken whose handler asked the DataStore for the first page and
\* got no resource
EmptyFirstPage ==
    /\ pc # "setup" /\ ~IllegalOrRepeated
    /\ request.verb # << >>
    /\ request.verb[1] \in {"ListRecords", "ListIdentifiers"}
    /\ "resumptionToken" \notin Keys(request)
    /\ calls # << >> /\ calls[Len(calls)] = "list"
    /\ resources = << >>

\* C20: a ListRecords or ListIdentifiers request without resumptionToken
\* whose first page holds no resource is answered noRecordsMatch.
C20_EmptyFirstPageIsError ==
    EmptyFirstPage => response.kind = "noRecordsMatch"

\* The set name in effect for the last request: the set of its token when
\* it holds one that matches the pattern of the verb, its set argument
\* otherwise
SetInEffect ==
    IF request.resumptionToken # << >>
    THEN decode_resumption_token(request.resumptionToken[1]).set
    ELSE IF request.set # << >> THEN PyStr(request.set[1]) ELSE PyNone

\* The last request was a ListRecords or ListIdentifiers that named a set
\* the SetsRegistry has no view for
UnresolvedSet ==
    /\ pc # "setup" /\ ~IllegalOrRepeated
    /\ request.verb # << >>
    /\ request.verb[1] \in {"ListRecords", "ListIdentifiers"}
    /\ request.resumptionToken # << >> =>
           RESUMPTION_TOKEN_PATTERNS(request.verb[1],
                                     request.resumptionToken[1])
    /\ Truthy(SetInEffect)
    /\ SetInEffect.s \notin {<< "a" >>, << "b", ":", "c" >>}

\* The last request came to the lookup of its set: its arguments were
\* accepted, its token was accepted or made, and the metadataPrefix in
\* effect for ListRecords is registered
CameToSetLookup ==
    /\ outcome \notin {"BadArgumentError", "BadResumptionTokenError"}
    /\ token # None
    /\ request.verb[1] = "ListRecords" => token[1].metadataPrefix.s = oai_dc

AcceptedListing ==
    /\ pc # "setup" /\ ~IllegalOrRepeated
    /\ request.verb # << >>
    /\ request.verb[1] \in {"ListRecords", "ListIdentifiers"}
    /\ "resumptionToken" \notin Keys(request)
    /\ ArgumentsAccepted

\* The from or the until of the last request is no date of the form
\* YYYY-MM-DD, the granularity of the datestamps of the DataStore
MalformedDate ==
    \/ request.from # << >> /\ ~IsDateShape(request.from[1])
    \/ request.until # << >> /\ ~IsDateShape(request.until[1])

\* C22: a ListRecords or ListIdentifiers request whose from or until is no
\* date of the granularity of the repository is answered badArgument.
C22_MalformedDateIsBadArgument ==
    (AcceptedListing /\ MalformedDate) => response.kind = "badArgument"

\* The from and the until of the last request are dates of the form
\* YYYY-MM-DD and from is later than until
FromAfterUntil ==
    /\ request.from # << >> /\ IsDateShape(request.from[1])
    /\ request.until # << >> /\ IsDateShape(request.until[1])
    /\ StrLess(request.until[1], request.from[1])

\* C23: a ListRecords or ListIdentifiers request whose from is later than
\* its until is answered badArgument, and neither
\* get_resumption_token_from_request nor new_from_request makes a cursor of
\* it.
C23_FromAfterUntilIsBadArgument ==
    (AcceptedListing /\ FromAfterUntil) =>
        /\ response.kind = "badArgument"
        /\ token = None
        /\ new_from_request(oairequest_from_querystring(request), listslen,
                            DefaultFrom, DefaultUntil).token = None

\* The last request was a ListRecords whose arguments were accepted and
\* whose resumptionToken, when it holds one, was accepted too
ResolvedListRecords ==
    /\ RequestFor("ListRecords")
    /\ outcome \notin {"BadArgumentError", "BadResumptionTokenError"}

\* The metadataPrefix in effect for the last request: the one of its token
\* when it holds one, its metadataPrefix argument otherwise
PrefixInEffect ==
    IF request.resumptionToken # << >>
    THEN decode_resumption_token(request.resumptionToken[1]).metadataPrefix.s
    ELSE request.metadataPrefix[1]

\* C24: a ListRecords request whose metadataPrefix in effect, given as
\* argument or held by its resumptionToken, is not registered is answered
\* cannotDisseminateFormat.
C24_UnregisteredFormat ==
    (ResolvedListRecords /\ PrefixInEffect # oai_dc) =>
        response.kind = "cannotDisseminateFormat"

\* The kinds of response: the payloads and the errors of the taxonomy
Payloads ==
    {"Identify", "GetRecord", "ListRecords", "ListIdentifiers",
     "ListMetadataFormats", "ListSets"}

Taxonomy ==
    {"badVerb", "badArgument", "badResumptionToken",
     "cannotDisseminateFormat", "idDoesNotExist", "noRecordsMatch"}

\* C25: handle_request answers every query string with a payload or with
\* one error of the taxonomy; no exception leaves it.
C25_ErrorMappingTotal ==
    pc # "setup" =>
        /\ response.kind \in Payloads \cup Taxonomy
        /\ outcome \in {"", "BadArgumentError", "SetNameError",
                        "DoesNotExistError", "BadResumptionTokenError"}

\* The argument predicate of the verb of the last request, applied to the
\* arguments the request holds
VerbPredicate ==
    CASE request.verb[1] \in {"Identify", "ListMetadataFormats"} ->
             are_equal({"verb"}, Keys(request))
      [] request.verb[1] = "GetRecord" ->
             are_equal({"verb", "metadataPrefix", "identifier"}, Keys(request))
      [] request.verb[1] = "ListRecords" -> check_listrecords_args(Keys(request))
      [] request.verb[1] = "ListIdentifiers" ->
             check_listidentifiers_args(Keys(request))
      [] request.verb[1] = "ListSets" -> check_listsets_args(Keys(request))

\* The last request was rejected by the check of names and repetition or by
\* the argument predicate of its verb
RejectedByValidation ==
    /\ pc # "setup"
    /\ \/ IllegalOrRepeated
       \/ /\ request.verb # << >> /\ request.verb[1] \in Payloads
          /\ ~VerbPredicate

\* C26: a request that the check of names and repetition or the argument
\* predicate of its verb rejects is answered badArgument without any
\* operation of the DataStore or of the SetsRegistry being invoked and
\* without a token being decoded or made.
C26_ValidationBeforeBackend ==
    RejectedByValidation =>
        /\ response.kind = "badArgument"
        /\ calls = << >> /\ resources = << >>
        /\ token = None /\ nextToken = None

\* A ListIdentifiers request for a registered set that holds resources was
\* rejected for its metadataPrefix
C26_Witness ==
    /\ RejectedByValidation /\ ~IllegalOrRepeated
    /\ request.verb[1] = "ListIdentifiers"
    /\ request.set = << << "a" >> >> /\ request.metadataPrefix # << >>
    /\ request.resumptionToken = << >>
    /\ \E i \in 1..Len(data) : << "a" >> \in data[i].setspec
    /\ response.kind = "badArgument"

FreshCursor ==
    /\ pc # "setup" /\ token # None
    /\ ~Truthy(request.resumptionToken)

\* The values default_from may have: a date, or None
DefaultFroms == { DefaultFrom, PyStr(Date(1999, 1, 1)), PyNone }

\* C28: the cursor new_from_request makes of a request without
\* resumptionToken satisfies is_first_page, and its offset is the from of
\* the request, or default_from when the request has none, followed by
\* '(0)'; so it is for every default_from.
C28_FreshCursorIsFirstPage ==
    FreshCursor =>
        /\ is_first_page(Cur)
        /\ Cur.offset.s = Fmt(PyOr(request.from_, DefaultFrom))
                              \o << "(", "0", ")" >>
        /\ \A df \in DefaultFroms :
               LET c == new_from_request(request, listslen, df,
                                         DefaultUntil).token[1]
               IN  /\ is_first_page(c)
                   /\ c.offset.s = Fmt(PyOr(request.from_, df))
                                       \o << "(", "0", ")" >>

\* A cursor was made of a request whose from is not default_from
C28_Witness ==
    /\ FreshCursor
    /\ Truthy(request.from_) /\ request.from_ # DefaultFrom
    /\ Truthy(request.until)
    /\ is_first_page(Cur)


\* The date anchor of the cursor is its from and it skips no row
AnchoredAtFrom(c) ==
    /\ c.from_.ty = "str" /\ query_from(c) = c.from_.s
    /\ query_offset(c) = 0

\* C29: of every cursor held, made of a request or decoded from a token
\* that matches the pattern of the verb, is_first_page is true exactly when
\* the date anchor of the offset equals from and the number of rows skipped
\* is 0.
C29_FirstPageIffAnchoredAtFrom ==
    \A c \in HeldCursors :
        CanQuery(c) => (is_first_page(c) <=> AnchoredAtFrom(c))


\* The offset of a cursor read as 'YYYY-MM-DD(N)': the date before the
\* parenthesis and the number within the parentheses
OffsetAnchor(c) == SubSeq(c.offset.s, 1, IndexOf(c.offset.s, "("))
OffsetSkip(c) == StrToInt(SubSeq(c.offset.s, 12, Len(c.offset.s) - 1))

\* December 31 of the year of a date
YearEnd(date) == Date(YearOf(date), 12, 31)

\* The earlier of two dates
EarlierOf(d1, d2) ==
    IF TupleLess(datestamp_to_tuple(d2), datestamp_to_tuple(d1)) THEN d2
    ELSE d1

\* The upper bound of the window of a cursor: the earlier of until and the
\* end of the year of the anchor, the end of the year for a cursor that has
\* no until
WindowEnd(c) ==
    IF IsDateShape(c.until.s)
    THEN EarlierOf(c.until.s, YearEnd(OffsetAnchor(c)))
    ELSE YearEnd(OffsetAnchor(c))

\* C30: of every cursor held whose offset reads 'YYYY-MM-DD(N)', query_from
\* is the date of the offset, query_offset is N, and query_until is the
\* earlier of until and December 31 of the year of that date.
C30_QueryWindow ==
    \A c \in HeldCursors :
        (c.offset.ty = "str" /\ IsAnchoredOffset(c.offset.s)) =>
            /\ CanQuery(c)
            /\ query_from(c) = OffsetAnchor(c)
            /\ query_offset(c) = OffsetSkip(c)
            /\ query_until(c) = WindowEnd(c)

(***************************************************************************)
(* Properties of equality and of decode                                    *)
(***************************************************************************)

\* The attribute written as encode writes it: '' for None, the decimal
\* digits for an int
AsString(v) == PyStr(ensure_str(v))

\* The cursor whose attributes are the strings encode writes
Stringified(c) ==
    ResumptionToken(AsString(c.set), AsString(c.from_), AsString(c.until),
                    AsString(c.offset), AsString(c.count),
                    AsString(c.metadataPrefix))

\* The cursor that holds its count as an int
WithIntCount(c) == [c EXCEPT !.count = PyInt(IntOf(c.count))]

\* The cursor that holds None for each attribute that is ''
NoneForEmpty(v) == IF v.ty = "str" /\ v.s = << >> THEN PyNone ELSE v
WithNones(c) ==
    ResumptionToken(NoneForEmpty(c.set), NoneForEmpty(c.from_),
                    NoneForEmpty(c.until), NoneForEmpty(c.offset),
                    NoneForEmpty(c.count), NoneForEmpty(c.metadataPrefix))

\* The cursors held and the cursors that hold the same values in other types
CursorForms ==
    UNION { { c, Stringified(c), WithNones(c) }
            \cup (IF IntExc(c.count) = ""
                  THEN { WithIntCount(c), WithIntCount(WithNones(c)) }
                  ELSE { }) : c \in HeldCursors }

AttrsOf(c) ==
    << c.set, c.from_, c.until, c.offset, c.count, c.metadataPrefix >>

\* The tokens of fewer than six parts that begin as the token of the last
\* request does
ShortTokens ==
    IF request.resumptionToken.ty # "str" THEN { }
    ELSE LET parts == Split(request.resumptionToken.s, ":")
         IN  { Join(SubSeq(parts, 1, k), ":") :
                   k \in 1..(IF Len(parts) < 5 THEN Len(parts) ELSE 5) }

\* The cursor decode makes of a token holds the parts of the token and v for
\* each attribute the token has no part for
DecodesWith(tok, v) ==
    LET parts == Split(tok, ":")
        c == decode(tok)
    IN  \A i \in 1..6 :
            AttrsOf(c)[i] = (IF i <= Len(parts) THEN PyStr(parts[i]) ELSE v)

\* The last request held a token of fewer than six parts
ShortTokenSent ==
    /\ pc # "setup" /\ Truthy(request.resumptionToken)
    /\ request.resumptionToken.s \in ShortTokens

\* C32 as stated: the cursor decode makes of a token of fewer than six parts
\* holds '' for each attribute the token has no part for.
C32_MissingAttributesAreEmpty ==
    \A tok \in ShortTokens : DecodesWith(tok, PyStr(<< >>))

\* C32: the cursor decode makes of a token of fewer than six parts holds None
\* for each attribute the token has no part for, and encode writes '' for
\* each; no pattern of a verb matches such a token, and a request that holds
\* one raises BadResumptionTokenError.
C32_MissingAttributesAreNone ==
    /\ \A tok \in ShortTokens :
           /\ DecodesWith(tok, PyNone)
           /\ encode(decode(tok)) = encode(decode_Padded(tok))
           /\ \A verb \in PatternVerbs : ~is_valid_token(tok, verb)
    /\ ShortTokenSent => outcome = "BadResumptionTokenError"

\* A request held a token of five parts and was refused
C32_Witness ==
    /\ ShortTokenSent
    /\ Len(Split(request.resumptionToken.s, ":")) = 5
    /\ decode(request.resumptionToken.s).metadataPrefix = PyNone
    /\ outcome = "BadResumptionTokenError"

(***************************************************************************)
(* The patterns of the tokens: tokens made of parts of every form are      *)
(* matched against the pattern of ListIdentifiers                          *)
(***************************************************************************)

\* The forms of the parts of a token: absent, well-formed and ill-formed
PartSets == { << >>, << "a" >>, << "-" >>, << "b", ":", "c" >> }
PartDates == { << >>, Date(1998, 1, 1), << "1", "9", "9", "8" >> }
PartOffsets ==
    { << >>, << "0" >>, << "1", "0" >>, << "a" >>,
      Date(1998, 1, 1) \o << "(", "0", ")" >> }
PartCounts == { << >>, << "1" >>, << "a" >> }
PartPrefixes == { << >>, oai_dc, << "-" >> }

PatternTokens ==
    { Join(<< s, f, u, o, c, m >>, ":") :
          s \in PartSets, f \in PartDates, u \in PartDates,
          o \in PartOffsets, c \in PartCounts, m \in PartPrefixes }

InitPattern ==
    /\ data = << >>
    /\ listslen \in 0..MaxListsLen
    /\ pc = "setup"
    /\ origin = "client"
    /\ request \in { TokenRequest("ListIdentifiers", tok) :
                         tok \in PatternTokens }
    /\ token = None
    /\ resources = << >>
    /\ nextToken = None
    /\ outcome = ""
    /\ delivered = << >>
    /\ rollovers = 0
    /\ response = [kind |-> "", resumptionToken |-> << >>]
    /\ calls = << >>

\* new_from_request is given the request: the token is matched against the
\* pattern of the verb, decoded, and its count compared with listslen
DecodeToken ==
    /\ pc = "setup"
    /\ \E r \in { new_from_request(request, listslen, DefaultFrom,
                                   DefaultUntil) } :
           /\ outcome' = r.exc
           /\ token' = r.token
           /\ pc' = IF r.exc = "" THEN "done" ELSE "failed"
    /\ UNCHANGED << data, listslen, origin, request, resources, nextToken,
                    delivered, rollovers, response, calls >>

NextPattern == DecodeToken

SpecPattern == InitPattern /\ [][NextPattern]_vars

\* The parts of the token of the request, when it has six
SixParts == Len(Split(request.resumptionToken.s, ":")) = 6
Part(i) == Split(request.resumptionToken.s, ":")[i]

\* offset and count are digits, metadataPrefix is a word, from and until
\* are absent or of the form YYYY-MM-DD
PartsWellFormed ==
    /\ Part(2) = << >> \/ IsDateShape(Part(2))
    /\ Part(3) = << >> \/ IsDateShape(Part(3))
    /\ Part(4) # << >> /\ AllDigits(Part(4))
    /\ Part(5) # << >> /\ AllDigits(Part(5))
    /\ Part(6) # << >> /\ AllWord(Part(6))

\* C33 as stated: a token of six parts matches the pattern of
\* ListIdentifiers exactly when offset and count are digits, metadataPrefix
\* is a word and from and until are absent or dates, whatever the set.
C33_PatternOfListIdentifiersAnySet ==
    SixParts => (_is_valid_oairequest(request) <=> PartsWellFormed)

\* C33: a token of six parts matches the pattern of ListIdentifiers exactly
\* when offset and count are digits, metadataPrefix is a word, from and
\* until are absent or dates, and set is absent or a word; new_from_request
\* raises BadResumptionTokenError for a token that does not match.
C33_PatternOfListIdentifiers ==
    /\ SixParts =>
           (_is_valid_oairequest(request)
                <=> (PartsWellFormed /\ AllWord(Part(1))))
    /\ (pc # "setup" /\ ~(SixParts /\ PartsWellFormed /\ AllWord(Part(1))))
           => (outcome = "BadResumptionTokenError" /\ token = None)
    /\ pc = "done" => (SixParts /\ PartsWellFormed)

\* A token with no set, no from and an until was matched and decoded
C33_Witness ==
    /\ pc = "done" /\ token # None
    /\ request.verb.s = "ListIdentifiers"
    /\ SixParts /\ Part(1) = << >> /\ Part(2) = << >> /\ Part(3) # << >>
    /\ Cur.metadataPrefix.s = oai_dc

\* C34: a ListMetadataFormats request that holds an identifier the DataStore
\* does not hold is answered idDoesNotExist.
C34_UnknownIdentifierOfFormats ==
    ( /\ RequestFor("ListMetadataFormats")
      /\ Keys(request) = {"verb", "identifier"}
      /\ Held = {} )
        => response.kind = "idDoesNotExist"

\* The token of the last response is sent back, in a harvest that began with
\* a request without a token whose from and until are dates
TokenSentBack ==
    /\ pc = "paging" /\ origin = "fresh"
    /\ ~MalformedDate
    /\ request'.verb = request.verb
    /\ request'.resumptionToken = << response.resumptionToken >>

ScanBefore(a, b) ==
    \/ TupleLess(datestamp_to_tuple(query_from(a)),
                 datestamp_to_tuple(query_from(b)))
    \/ /\ query_from(a) = query_from(b)
       /\ query_offset(a) < query_offset(b)

\* C36: the cursor next returns for a cursor and its page is after the
\* cursor in the order on (date anchor, skip), whatever the page length, so
\* the cursors of a scan are all different.
C36_StrictForwardProgress ==
    (PageServed /\ nextToken # None) =>
        /\ CanQuery(Nxt)
        /\ ScanBefore(Cur, Nxt)
        /\ ~TokenEq(Cur, Nxt)

\* C37: a ListRecords or ListIdentifiers request without set and without
\* resumptionToken whose arguments are accepted is not answered badArgument:
\* no view is missed, and the DataStore is asked for its resources.
C37_NoSetIsAllRecords ==
    (AcceptedListing /\ "set" \notin Keys(request)) =>
        /\ outcome # "SetNameError"
        /\ response.kind # "badArgument"
        /\ calls = << "get_view", "list" >>

\* The last request was answered with a page and a token for the next
TokenAdvanced ==
    /\ pc # "setup" /\ response.kind \in ListingKinds
    /\ token # None /\ nextToken # None

\* C38: the token inc_resumption_token returns holds the decimal digits of
\* 1 + offset + count as its offset, and the set, from, until, count and
\* metadataPrefix of the token it was given; the token it was given is still
\* the one made of the request.
C38_OnlyOffsetAdvances ==
    TokenAdvanced =>
        /\ Nxt = inc_resumption_token(Cur)
        /\ Nxt.offset =
               PyStr(IntToStr(1 + IntOf(Cur.offset) + IntOf(Cur.count)))
        /\ Nxt.set = Cur.set /\ Nxt.from_ = Cur.from_
        /\ Nxt.until = Cur.until /\ Nxt.count = Cur.count
        /\ Nxt.metadataPrefix = Cur.metadataPrefix
        /\ token = get_resumption_token_from_request(
                       oairequest_from_querystring(request), listslen).token

\* A token that holds a set and an offset above 0 was advanced
C38_Witness ==
    /\ TokenAdvanced
    /\ Truthy(Cur.set) /\ IntOf(Cur.offset) > 0 /\ IntOf(Cur.count) > 0
    /\ Nxt.offset # Cur.offset

(***************************************************************************)
(* Concurrent requests: several calls of handle_request on one Repository  *)
(* run their steps in any order.  Each variable that holds what one call   *)
(* works with holds one value per call.                                    *)
(***************************************************************************)

\* The calls that run at once
Calls == {1, 2}

\* The DataStore of the Repository, filled before the requests
StoredData ==
    { << >>,
      << Resource(1, Date(1998, 6, 30), {<< "a" >>}) >>,
      << Resource(1, Date(1998, 6, 30), {<< "a" >>}),
         Resource(2, Date(1999, 6, 30), {<< "a" >>}) >> }

\* The query strings of the calls: n is the configured page length
ConcurrentQueries(n) ==
    { QueryOf(OAIRequest(PyStr("ListRecords"), PyNone, PyStr(oai_dc),
                         PyStr(<< "a" >>), PyNone, PyNone, PyNone)),
      QueryOf(OAIRequest(PyStr("ListIdentifiers"), PyNone, PyNone,
                         PyStr(<< "a" >>), PyNone, PyNone, PyNone)),
      QueryOf(OAIRequest(PyStr("ListRecords"), PyNone, PyNone, PyNone,
                         PyStr(<< "a" >> \o Colon \o Colon \o Colon
                                   \o << "0" >> \o Colon \o IntToStr(n)
                                   \o Colon \o oai_dc),
                         PyNone, PyNone)),
      QueryOf(OAIRequest(PyStr("GetRecord"), PyStr(<< "1" >>), PyStr(oai_dc),
                         PyNone, PyNone, PyNone, PyNone)),
      QueryOf(OAIRequest(PyStr("GetRecord"), PyStr(<< "1" >>),
                         PyStr(<< "b" >>), PyNone, PyNone, PyNone, PyNone)),
      QueryOf(OAIRequest(PyStr("ListSets"), PyNone, PyNone, PyNone, PyNone,
                         PyNone, PyNone)),
      QueryOf(OAIRequest(PyStr("ListMetadataFormats"), PyNone, PyNone, PyNone,
                         PyNone, PyNone, PyNone)),
      QueryOf(OAIRequest(PyStr("Identify"), PyNone, PyNone, PyNone, PyNone,
                         PyNone, PyNone)),
      QueryOf(OAIRequest(PyStr("a"), PyNone, PyNone, PyNone, PyNone, PyNone,
                         PyNone)) }

InitConcurrent ==
    /\ data \in StoredData
    /\ listslen \in 1..MaxListsLen
    /\ pc = [c \in Calls |-> "setup"]
    /\ origin = "fresh"
    /\ request = [c \in Calls |-> QueryOf(NoRequest)]
    /\ token = [c \in Calls |-> None]
    /\ resources = [c \in Calls |-> << >>]
    /\ nextToken = [c \in Calls |-> None]
    /\ outcome = [c \in Calls |-> ""]
    /\ delivered = << >>
    /\ rollovers = 0
    /\ response = [c \in Calls |-> [kind |-> "", resumptionToken |-> << >>]]
    /\ calls = [c \in Calls |-> << >>]

\* handle_request is called with a query string
Enter(c) ==
    /\ pc[c] = "setup"
    /\ \E q \in ConcurrentQueries(listslen) :
           request' = [request EXCEPT ![c] = q]
    /\ pc' = [pc EXCEPT ![c] = "called"]
    /\ UNCHANGED << data, listslen, origin, token, resources, nextToken,
                    outcome, delivered, rollovers, response, calls >>

\* A variant of Handle in which the resources a call reads are taken out of
\* the DataStore
Handle_Consuming(c) ==
    /\ pc[c] = "called"
    /\ \E r \in { handle_request(request[c]) } :
           /\ token' = [token EXCEPT ![c] = r.token]
           /\ resources' = [resources EXCEPT ![c] = r.resources]
           /\ nextToken' = [nextToken EXCEPT ![c] = r.next_token]
           /\ outcome' = [outcome EXCEPT ![c] = r.exc]
           /\ calls' = [calls EXCEPT ![c] = r.calls]
           /\ response' = [response EXCEPT ![c] =
                               [kind |-> r.kind, resumptionToken |-> << >>]]
           /\ data' = IF r.kind \in {"ListRecords", "ListIdentifiers"}
                      THEN LET Left(res) ==
                                   \A i \in 1..Len(r.resources) :
                                       r.resources[i] # res
                           IN  SelectSeq(data, Left)
                      ELSE data
    /\ pc' = [pc EXCEPT ![c] = "handled"]
    /\ UNCHANGED << listslen, origin, request, delivered, rollovers >>

\* The checks and the handler of the verb run: the Repository and its
\* DataStore are read, and what is read is kept in the variables of the call
Handle(c) ==
    /\ pc[c] = "called"
    /\ \E r \in { handle_request(request[c]) } :
           /\ token' = [token EXCEPT ![c] = r.token]
           /\ resources' = [resources EXCEPT ![c] = r.resources]
           /\ nextToken' = [nextToken EXCEPT ![c] = r.next_token]
           /\ outcome' = [outcome EXCEPT ![c] = r.exc]
           /\ calls' = [calls EXCEPT ![c] = r.calls]
           /\ response' = [response EXCEPT ![c] =
                               [kind |-> r.kind, resumptionToken |-> << >>]]
    /\ pc' = [pc EXCEPT ![c] = "handled"]
    /\ UNCHANGED << data, listslen, origin, request, delivered, rollovers >>

\* The response is serialized of what the call holds and returned
Return(c) ==
    /\ pc[c] = "handled"
    /\ response' = [response EXCEPT ![c].resumptionToken =
                        IF response[c].kind \in ListingKinds
                        THEN encoded_resumption_token(nextToken[c])
                        ELSE << >>]
    /\ pc' = [pc EXCEPT ![c] = "done"]
    /\ UNCHANGED << data, listslen, origin, request, token, resources,
                    nextToken, outcome, delivered, rollovers, calls >>

NextConcurrent ==
    \E c \in Calls : Enter(c) \/ Handle(c) \/ Return(c)

SpecConcurrent == InitConcurrent /\ [][NextConcurrent]_vars

\* The response handle_request returns for a query string when no other
\* call runs
AloneResponse(q) ==
    [kind |-> handle_request(q).kind,
     resumptionToken |->
         IF handle_request(q).kind \in ListingKinds
         THEN encoded_resumption_token(handle_request(q).next_token)
         ELSE << >>]

=============================================================================
